---- MODULE Spec2Model ----
(***************************************************************************)
(* Model of the Context7 documentation client of ai-sdlc                    *)
(* (ai_sdlc/services/context7_client.py): the client life cycle, the retry  *)
(* wrapper _execute_tool_with_retry and the SSE-then-POST tool invocation   *)
(* _execute_tool with its background reader task; and of the enrichment     *)
(* service with its on-disk cache (ai_sdlc/services/context7_service.py),   *)
(* as the commands next and context run it in concurrent processes.         *)
(*                                                                          *)
(* The event loop is single threaded: every action below is the code that   *)
(* runs between two await points of one coroutine.  asyncio.wait_for raises *)
(* the builtin TimeoutError (Python >= 3.11), which is what the code        *)
(* catches.                                                                 *)
(***************************************************************************)
EXTENDS Integers, Sequences, FiniteSets, TLC

VARIABLES
    closed,          \* Context7Client._closed
    client,          \* Context7Client._client: "none", "open", "closed"
    lastCall,        \* name of the most recent public operation invoked
    op,              \* public operation in progress, or "idle"
    opResult,        \* what the most recent public operation returned/raised
    rpc,             \* position of _execute_tool_with_retry
    attempt,         \* loop index of _execute_tool_with_retry
    last_exception,  \* local of _execute_tool_with_retry
    calls,           \* number of _execute_tool invocations of this retry run
    sleeps,          \* the asyncio.sleep arguments of this retry run, in order
    outcomes,        \* what each _execute_tool invocation returned/raised
    retryResult,     \* what _execute_tool_with_retry returned/raised
    pc,              \* position of the coroutine _execute_tool
    endpoint,        \* local of _execute_tool
    session_id,      \* local of _execute_tool
    result_queue,    \* local asyncio.Queue of _execute_tool
    elapsed,         \* seconds spent in the current asyncio.wait_for
    sse_task,        \* state of the task running sse_reader
    sse_exc,         \* exception stored in the failed reader task
    getStatus,       \* status the server gave the SSE GET (0: none yet)
    postStatus,      \* status the server gave the POST (0: none yet)
    announced,       \* endpoint data the stream has delivered so far
    posted,          \* the POST _execute_tool issued, or NoPost
    timedOut,        \* which bounded wait of this invocation elapsed
    toolOutcome,     \* what _execute_tool returned/raised
    skipped          \* the invocation passed over a data line that is not JSON

VARIABLES
    now,             \* the wall clock (datetime.now()), in hours
    dirExists,       \* the cache directory exists
    diskIndex,       \* index.json: [state, entries]
    bodies,          \* the body files {cache_key}.md: key -> content or NoFile
    lockOwner,       \* process holding the OS lock on the current .lock file
    ppc,             \* position of each process (command invocation)
    cmd,             \* the command each process runs: "enrich" or "clear"
    memIndex,        \* Context7Service.cache_index of each process
    libraries,       \* the candidate libraries of the current enrich_prompt
    todo,            \* the libraries the loop of enrich_prompt has still to do
    library_docs,    \* local dict of enrich_prompt, in insertion order
    library_id,      \* local of enrich_prompt
    docs,            \* local of enrich_prompt
    held,            \* self._lock_handle of the process is an acquired lock
    section,         \* what format_library_docs_section returned
    raised,          \* [where, exc] of the exception that ended the process
    loadTimeout,     \* did _load_cache_index meet a lock timeout
    netCalls,        \* the client calls of the current enrich_prompt
    pre,             \* what each lookup of the current enrich_prompt found
    hitBody,         \* the body each lookup of the current enrich_prompt read
    wroteBody,       \* keys whose body file the current enrich_prompt wrote
    wroteIndex,      \* keys the current enrich_prompt persisted in index.json
    storeTimeout,    \* libraries whose store met a lock timeout, and where
    lastIndexOp,     \* the latest access to index.json: [op, locked]
    persisted,       \* keys stored and persisted since the last clear
    lastLookup,      \* per key: result of the latest lookup by any process
    vNow,            \* validity check: the clock
    vEntry,          \* validity check: the cache entry
    vResult,         \* validity check: what _is_cache_valid returned
    runs,            \* commands started so far
    args,            \* the arguments of the current enrich_prompt
    prompt,          \* local of enrich_prompt: the prompt, as pieces of text
    replies          \* per library: what the client calls of the run gave

VARIABLES
    parsed,          \* resolve_library_id: what _parse_library_results returned
    best_match       \* resolve_library_id: position of the library selected, or 0

VARIABLES
    lock,            \* .aisdlc.lock as read_lock gives it: [slug, current]
    active,          \* the folder of the workstream is in the active directory
    archived,        \* a folder of the workstream is in the done directory
    stepFiles,       \* steps whose file {step}-{slug}.md is in the active folder
    promptFiles,     \* steps whose file _prompt-{step}.md is in the active folder
    last             \* the latest command: its inputs, what it did, how it ended

diskVars == <<now, dirExists, diskIndex, bodies, lockOwner>>
procVars == <<ppc, cmd, memIndex, libraries, todo, library_docs, library_id,
              docs, held, section, raised, loadTimeout>>
histVars == <<netCalls, pre, hitBody, wroteBody, wroteIndex, storeTimeout,
              lastIndexOp, persisted, lastLookup>>
validityVars == <<vNow, vEntry, vResult>>
cacheVars == <<diskVars, procVars, histVars, validityVars, runs, args, prompt, replies,
               parsed, best_match, lock, active, archived, stepFiles, promptFiles, last>>

vars == <<closed, client, lastCall, op, opResult, rpc, attempt, last_exception,
          calls, sleeps, outcomes, retryResult, pc, endpoint, session_id,
          result_queue, elapsed, sse_task, sse_exc, getStatus, postStatus,
          announced, posted, timedOut, toolOutcome, skipped, cacheVars>>

clientVars == <<closed, client, lastCall, op, opResult>>
retryVars == <<rpc, attempt, last_exception, calls, sleeps, outcomes, retryResult>>
toolVars == <<pc, endpoint, session_id, result_queue, elapsed, sse_task,
              sse_exc, getStatus, postStatus, announced, posted, timedOut,
              toolOutcome>>
clientSide == <<clientVars, retryVars, toolVars, skipped, validityVars, parsed, best_match,
                lock, active, archived, stepFiles, promptFiles, last>>

----------------------------------------------------------------------------
(* Program constants *)

MAX_RETRIES == 3
RETRY_BACKOFF_FACTOR == 2
RETRY_STATUS_CODES == {502, 503, 504, 429}
EndpointTimeout == 5
PayloadTimeout == 10
BaseUrl == "https://mcp.context7.com"

(* Model bounds *)

\* Items the queue may hold before the server's next line is delivered.
MaxQueue == 2

None == "None"
NoPost == [url |-> <<"", "">>, session |-> ""]

----------------------------------------------------------------------------
(* The lines a server may send on the SSE stream, and the string            *)
(* operations the code applies to them, tabulated on this alphabet.         *)

Lines ==
    { "data: /messages?sessionId=s1",
      "data: /messages",
      "data: {\"result\": {}}",
      "data: not json",
      "data: [DONE]",
      "event: done",
      ": ping" }

\* line.startswith("data: /messages")
StartsWithDataMessages(line) ==
    line \in {"data: /messages?sessionId=s1", "data: /messages"}

\* line.startswith("data:")
StartsWithData(line) ==
    line \in {"data: /messages?sessionId=s1", "data: /messages",
              "data: {\"result\": {}}", "data: not json", "data: [DONE]"}

\* line[6:]
EndpointData(line) ==
    CASE line = "data: /messages?sessionId=s1" -> "/messages?sessionId=s1"
      [] line = "data: /messages" -> "/messages"
      [] line = "data: {\"result\": {}}" -> "{\"result\": {}}"
      [] line = "data: not json" -> "not json"
      [] line = "data: [DONE]" -> "[DONE]"
      [] line = "event: done" -> " done"
      [] OTHER -> ""

\* line[5:].strip()
DataStr(line) ==
    CASE line = "data: /messages?sessionId=s1" -> "/messages?sessionId=s1"
      [] line = "data: /messages" -> "/messages"
      [] line = "data: {\"result\": {}}" -> "{\"result\": {}}"
      [] line = "data: not json" -> "not json"
      [] line = "data: [DONE]" -> "[DONE]"
      [] line = "event: done" -> ": done"
      [] OTHER -> "g"

\* A variant that takes every data string for JSON.
IsJsonAlways(data_str) == TRUE

\* json.loads(data_str) succeeds
IsJson(data_str) == data_str = "{\"result\": {}}"

\* "event: done" in str(line)
ContainsEventDone(text) == text = "event: done"

\* "sessionId=" in endpoint
HasSessionId(e) == e = "/messages?sessionId=s1"

\* endpoint.split("sessionId=")[1]
SplitSessionId(e) == IF e = "/messages?sessionId=s1" THEN "s1" ELSE ""

\* session_id as _execute_tool derives it from the endpoint
SessionIdOf(e) == IF HasSessionId(e) THEN SplitSessionId(e) ELSE None

\* f"{self.base_url}{endpoint}"
MessagesUrl(e) == <<BaseUrl, e>>

\* items of result_queue: a line (str) or the tuple ("endpoint", data)
StrItem(line) == [isTuple |-> FALSE, tag |-> "", val |-> line]
EndpointItem(data) == [isTuple |-> TRUE, tag |-> "endpoint", val |-> data]

----------------------------------------------------------------------------
(* Exception classes and how the retry wrapper sorts them *)

Exceptions ==
    {"ConnectError", "TimeoutException", "Context7TimeoutError",
     "HTTPStatusError", "Context7AuthError", "Context7ClientError"}

\* A variant that also retries authentication errors.
IsRetryableAlsoAuth(exc) ==
    exc \in {"ConnectError", "TimeoutException", "Context7TimeoutError",
             "Context7AuthError"}

\* except (httpx.ConnectError, httpx.TimeoutException, Context7TimeoutError)
IsRetryable(exc) ==
    exc \in {"ConnectError", "TimeoutException", "Context7TimeoutError"}

\* except (httpx.HTTPStatusError, Context7AuthError): break
IsNonRetryable(exc) ==
    exc \in {"HTTPStatusError", "Context7AuthError"}

RECURSIVE Pow(_, _)
Pow(b, n) == IF n = 0 THEN 1 ELSE b * Pow(b, n - 1)

\* wait_time = RETRY_BACKOFF_FACTOR**attempt
WaitTime(a) == Pow(RETRY_BACKOFF_FACTOR, a)

\* A variant that sleeps after every failed attempt, the last included.
SleepsBeforeRetryAlways(a) == TRUE

\* if attempt < MAX_RETRIES - 1: sleep, else: log "all attempts failed"
SleepsBeforeRetry(a) == a < MAX_RETRIES - 1

\* A variant that re-raises the last exception once the retries are used up.
AfterLoopRaising(exc) == exc

\* what _execute_tool_with_retry does after its loop: return None, whether
\* or not last_exception is set
AfterLoop(exc) == IF exc # None THEN None ELSE None

\* A variant in which the closed flag is never consulted.
IsClosedIgnored(flag) == FALSE

\* if self._closed: raise Context7ClientError("Client is closed")
IsClosed(flag) == flag

\* self._client after _get_client/_ensure_client returned normally
OpenedClient(c) == IF c \in {"none", "closed"} THEN "open" ELSE c

----------------------------------------------------------------------------
(* The enrichment service: data *)

CACHE_DAYS == 7

(* Model bounds *)

\* The latest hour the clock of the cache model reaches.
MaxNow == 168
ClockValues == {0, MaxNow}
\* The clock values and timestamps the validity check is tried on.
MaxClock == 180
MaxStamp == 12
\* The commands run on one cache directory.
MaxRuns == 3
\* The candidate libraries of one command.
MaxLibs == 1

Procs == {"p1", "p2"}
Free == "free"
Libraries == {"react", "pytest"}
Step == "7-tests"
\* the candidate lists: up to MaxLibs libraries, none twice
LibLists ==
    {libs \in UNION {[1..n -> Libraries] : n \in 0..MaxLibs} :
        \A i, j \in DOMAIN libs : libs[i] = libs[j] => i = j}
\* the text get_library_docs returns; the cache may hold an older one
DocVersions == {"# Docs v2"}
NoFile == "no file"
NoRead == "not read"

\* cache_key = f"{library}_{step}"
CacheKey(library, step) == <<library, step>>

Keys == {CacheKey(l, Step) : l \in Libraries}

\* the library id resolve_library_id finds for a library
IdOf(library) == IF library = "react" THEN "/facebook/react" ELSE "/pytest-dev/pytest"

\* {"timestamp": datetime.now().isoformat(), "library_id": library_id}
NewEntry(t, id) == [hasTs |-> TRUE, tsOk |-> TRUE, ts |-> t, library_id |-> id]

\* an entry whose "timestamp" is not an ISO date, and one without the key
BadStampEntry(id) == [hasTs |-> TRUE, tsOk |-> FALSE, ts |-> 0, library_id |-> id]
NoStampEntry(id) == [hasTs |-> FALSE, tsOk |-> FALSE, ts |-> 0, library_id |-> id]

EmptyIndex == [k \in {} |-> NoStampEntry("")]

\* dict assignment d[k] = v on a cache index
IndexSet(idx, k, v) ==
    [x \in DOMAIN idx \cup {k} |-> IF x = k THEN v ELSE idx[x]]

\* index.json as json.dumps(self.cache_index, indent=2) writes it
DumpIndex(idx) == [state |-> "ok", entries |-> idx]

\* json.loads(self.cache_index_file.read_text()); JSONDecodeError gives {}
LoadIndex(file) == IF file.state = "ok" THEN file.entries ELSE EmptyIndex

MissingIndex == [state |-> "missing", entries |-> EmptyIndex]
CorruptIndex == [state |-> "corrupt", entries |-> EmptyIndex]

\* A variant that still accepts an entry that is exactly 7 days old.
WithinWindowInclusive(age) == age <= CACHE_DAYS * 24

\* datetime.now() - cached_time < timedelta(days=7)
WithinWindow(age) == age < CACHE_DAYS * 24

\* _is_cache_valid; datetime.fromisoformat raises ValueError on a bad stamp
IsCacheValid(entry, clock) ==
    IF ~entry.hasTs THEN "False"
    ELSE IF ~entry.tsOk THEN "ValueError"
    ELSE IF WithinWindow(clock - entry.ts) THEN "True"
    ELSE "False"

\* A variant of the lookup that never trusts the cache.
LookupDecisionAlwaysFetch(indexed, valid, bodyExists) ==
    IF indexed /\ valid = "ValueError" THEN "raise" ELSE "fetch"

\* the branches of the cache check of enrich_prompt: note that the else
\* (fetch) belongs to the outer if, so a valid entry without a body file
\* neither reads nor fetches
LookupDecision(indexed, valid, bodyExists) ==
    IF indexed /\ valid = "ValueError" THEN "raise"
    ELSE IF indexed /\ valid = "True"
           THEN IF bodyExists THEN "read" ELSE "skip"
    ELSE "fetch"

\* dict assignment d[k] = v on library_docs (insertion ordered)
RECURSIVE DictSet(_, _, _)
DictSet(d, k, v) ==
    IF d = <<>> THEN <<[library |-> k, docs |-> v]>>
    ELSE IF Head(d).library = k THEN <<[library |-> k, docs |-> v]>> \o Tail(d)
    ELSE <<Head(d)>> \o DictSet(Tail(d), k, v)

\* library.title()
Title(library) == IF library = "react" THEN "React" ELSE "Pytest"

\* format_library_docs_section: "" for an empty dict, else one
\* "### {Title} Documentation" subheading with its text per library
RECURSIVE FormatSections(_)
FormatSections(d) ==
    IF d = <<>> THEN <<>>
    ELSE <<[heading |-> Title(Head(d).library), text |-> Head(d).docs]>>
           \o FormatSections(Tail(d))

\* A variant that records the comment of the other failure.
CouldNotResolveAsUnavailable(library) ==
    <<"<!-- Documentation not available for ", library, " -->">>
CouldNotResolve(library) == <<"<!-- Could not resolve library: ", library, " -->">>
NotAvailable(library) == <<"<!-- Documentation not available for ", library, " -->">>
Fetched(text) == <<text>>

\* the prompts enrich_prompt is given, as pieces of text: the lines of a
\* prompt, and for a prompt with the Context7 placeholder its two markers
\* and the text around and between them
Prompts ==
    { <<"# Title", "text", "", "## Heading", "more text">>,
      <<"# Title", "## Heading", "text">>,
      <<"Before ", "<context7_docs>", "placeholder", "</context7_docs>", " After">>,
      <<"Build a system with ", "<context7_docs>", "</context7_docs>">> }

\* The text of the previous steps is modelled by how it mentions each
\* library: as a word of its own ("word"), only as part of a longer word
\* ("part"), or not at all ("absent").

\* sorted(libraries) of the canonical names found as words
extract_libraries_from_text(text) ==
    SelectSeq(<<"pytest", "react">>, LAMBDA l : text[l] = "word")

\* the recommended libraries of a step (those of Libraries)
get_step_specific_libraries(step) ==
    IF step = "7-tests" THEN <<"pytest">>
    ELSE IF step = "3-system-template" THEN <<"react">>
    ELSE <<>>

\* A variant that adds the recommended libraries whatever the text says.
CandidateLibrariesAllRecommended(force_libraries, step, previous_content) ==
    IF force_libraries # <<>> THEN force_libraries
    ELSE LET found == extract_libraries_from_text(previous_content)
         IN found \o SelectSeq(get_step_specific_libraries(step),
                               LAMBDA lib : \A i \in DOMAIN found : found[i] # lib)

\* enrich_prompt: the forced list, or the libraries found in the previous
\* content followed by the recommended ones it contains
CandidateLibraries(force_libraries, step, previous_content) ==
    IF force_libraries # <<>> THEN force_libraries
    ELSE LET found == extract_libraries_from_text(previous_content)
         IN found \o SelectSeq(get_step_specific_libraries(step),
                               LAMBDA lib : /\ \A i \in DOMAIN found : found[i] # lib
                                            /\ previous_content[lib] # "absent")

\* enrich_prompt, from "if '<context7_docs>' in prompt", with
\* "{context7_section}" for the piece that is the section: every opening
\* marker becomes the section and every closing marker the empty string;
\* without a marker the section goes before the first line that starts
\* with "##" and has index above 2, or after an empty line at the end
InsertSection(text) ==
    IF \E i \in DOMAIN text : text[i] = "<context7_docs>"
      THEN SelectSeq([i \in DOMAIN text |->
                        IF text[i] = "<context7_docs>" THEN "{context7_section}" ELSE text[i]],
                     LAMBDA piece : piece # "</context7_docs>")
      ELSE LET headings == {i \in DOMAIN text :
                              /\ text[i] \in {"## Heading"}
                              /\ i - 1 > 2}
           IN IF headings # {}
                THEN LET at == CHOOSE i \in headings : \A j \in headings : i <= j
                     IN SubSeq(text, 1, at - 1) \o <<"{context7_section}">>
                            \o SubSeq(text, at, Len(text))
                ELSE text \o <<"", "{context7_section}">>

NoIndexOp == [op |-> "none", locked |-> TRUE]
NoLookup == <<"none">>
Absent == <<"absent">>
Unlocked == <<"TimeoutError">>
NoRaise == [where |-> "", exc |-> ""]

\* a cache directory as a command may find it
InitialDisks ==
    { [dir |-> FALSE, index |-> MissingIndex, files |-> [k \in Keys |-> NoFile]],
      [dir |-> TRUE, index |-> CorruptIndex, files |-> [k \in Keys |-> NoFile]],
      [dir |-> TRUE,
       index |-> DumpIndex(IndexSet(EmptyIndex, CacheKey("react", Step),
                                    NewEntry(0, IdOf("react")))),
       files |-> [k \in Keys |->
                    IF k = CacheKey("react", Step) THEN "# Docs v1" ELSE NoFile]],
      [dir |-> TRUE,
       index |-> DumpIndex(IndexSet(EmptyIndex, CacheKey("react", Step),
                                    NewEntry(0, IdOf("react")))),
       files |-> [k \in Keys |-> NoFile]],
      [dir |-> TRUE,
       index |-> DumpIndex(IndexSet(EmptyIndex, CacheKey("react", Step),
                                    BadStampEntry(IdOf("react")))),
       files |-> [k \in Keys |->
                    IF k = CacheKey("react", Step) THEN "# Docs v1" ELSE NoFile]] }

ProcsIdle ==
    /\ ppc = [p \in Procs |-> "idle"]
    /\ cmd = [p \in Procs |-> "none"]
    /\ memIndex = [p \in Procs |-> EmptyIndex]
    /\ libraries = [p \in Procs |-> <<>>]
    /\ todo = [p \in Procs |-> <<>>]
    /\ library_docs = [p \in Procs |-> <<>>]
    /\ library_id = [p \in Procs |-> None]
    /\ docs = [p \in Procs |-> ""]
    /\ held = [p \in Procs |-> FALSE]
    /\ section = [p \in Procs |-> <<>>]
    /\ raised = [p \in Procs |-> NoRaise]
    /\ loadTimeout = [p \in Procs |-> FALSE]
    /\ netCalls = [p \in Procs |-> {}]
    /\ pre = [p \in Procs |-> [l \in Libraries |-> "none"]]
    /\ hitBody = [p \in Procs |-> [l \in Libraries |-> NoRead]]
    /\ wroteBody = [p \in Procs |-> {}]
    /\ wroteIndex = [p \in Procs |-> {}]
    /\ storeTimeout = [p \in Procs |-> [l \in Libraries |-> "none"]]
    /\ lastIndexOp = NoIndexOp
    /\ persisted = {}
    /\ lastLookup = [k \in Keys |-> NoLookup]
    /\ args = [p \in Procs |->
                 [prompt |-> <<>>, force_libraries |-> <<>>,
                  previous_content |-> [l \in Libraries |-> "absent"]]]
    /\ prompt = [p \in Procs |-> <<>>]
    /\ replies = [p \in Procs |-> [l \in Libraries |-> "none"]]

ValidityUnused ==
    /\ runs = 0
    /\ vNow = 0
    /\ vEntry = NoStampEntry("")
    /\ vResult = "none"

\* no search result is being scored
ScoreUnused ==
    /\ parsed = <<>>
    /\ best_match = 0

\* the configured steps of the workflow (conf["steps"]), three of them
steps == <<"0-idea", "1-prd", "2-prd-plus">>

\* a project after init: no lock, no workstream, no command run yet
FlowUnused ==
    /\ lock = [slug |-> "", current |-> ""]
    /\ active = FALSE
    /\ archived = FALSE
    /\ stepFiles = {}
    /\ promptFiles = {}
    /\ last = [cmd |-> "none", exit |-> "", lock |-> [slug |-> "", current |-> ""],
               next_step |-> "", existed |-> FALSE, error |-> "",
               called |-> FALSE, generated |-> FALSE, prompted |-> FALSE]

\* the cache model at rest, for the specifications of the client alone
CacheUnused ==
    /\ now = 0
    /\ dirExists = FALSE
    /\ diskIndex = MissingIndex
    /\ bodies = [k \in Keys |-> NoFile]
    /\ lockOwner = Free
    /\ ProcsIdle
    /\ ValidityUnused

----------------------------------------------------------------------------
(* State after Context7Client.__init__ *)

ToolIdle ==
    /\ pc = "idle"
    /\ endpoint = None
    /\ session_id = None
    /\ result_queue = <<>>
    /\ elapsed = 0
    /\ sse_task = "none"
    /\ sse_exc = None
    /\ getStatus = 0
    /\ postStatus = 0
    /\ announced = {}
    /\ posted = NoPost
    /\ timedOut = "none"
    /\ toolOutcome = "pending"
    /\ skipped = FALSE

ClientInit ==
    /\ closed = FALSE
    /\ client = "none"
    /\ lastCall = "none"
    /\ op = "idle"
    /\ opResult = "none"
    /\ rpc = "idle"
    /\ attempt = 0
    /\ last_exception = None
    /\ calls = 0
    /\ sleeps = <<>>
    /\ outcomes = <<>>
    /\ retryResult = "pending"
    /\ ToolIdle

Init == ClientInit /\ CacheUnused /\ ScoreUnused /\ FlowUnused

----------------------------------------------------------------------------
(* Public operations of the client *)

\* the entry of _execute_tool_with_retry: last_exception = None, loop starts
RetryEntered ==
    /\ rpc' = "call"
    /\ attempt' = 0
    /\ last_exception' = None
    /\ calls' = 0
    /\ sleeps' = <<>>
    /\ outcomes' = <<>>
    /\ retryResult' = "pending"

\* resolve_library_id / get_library_docs up to the first await of the retry
\* wrapper: the closed check comes before the try block, so it raises.
StartOp(name) ==
    /\ op = "idle"
    /\ lastCall' = name
    /\ IF IsClosed(closed)
         THEN /\ opResult' = "Context7ClientError"
              /\ op' = "idle"
              /\ UNCHANGED retryVars
         ELSE /\ opResult' = "none"
              /\ op' = name
              /\ RetryEntered
    /\ UNCHANGED <<closed, client>>
    /\ UNCHANGED toolVars
    /\ UNCHANGED <<cacheVars, skipped>>

ResolveLibraryId == StartOp("resolve_library_id")

GetLibraryDocs == StartOp("get_library_docs")

\* _get_client called on its own (the synchronous helper)
GetClient ==
    /\ op = "idle"
    /\ lastCall' = "_get_client"
    /\ IF IsClosed(closed)
         THEN /\ opResult' = "Context7ClientError"
              /\ client' = client
         ELSE /\ opResult' = "client"
              /\ client' = OpenedClient(client)
    /\ UNCHANGED <<closed, op>>
    /\ UNCHANGED <<retryVars, toolVars>>
    /\ UNCHANGED <<cacheVars, skipped>>

\* A variant of aclose that refuses to close a client twice.
AcloseOnce ==
    /\ op = "idle"
    /\ lastCall' = IF closed THEN "aclose again" ELSE "aclose"
    /\ client' = IF client = "open" THEN "closed" ELSE client
    /\ closed' = TRUE
    /\ opResult' = IF closed THEN "Context7ClientError" ELSE "none"
    /\ UNCHANGED op
    /\ UNCHANGED <<retryVars, toolVars>>
    /\ UNCHANGED <<cacheVars, skipped>>

\* aclose: it tests the HTTP client and the event loop, never the closed
\* flag, so a second call runs the same code (lastCall tells it from the
\* first); between operations no event loop is owned (the synchronous
\* operations drop theirs in their finally blocks)
Aclose ==
    /\ op = "idle"
    /\ lastCall' = IF closed THEN "aclose again" ELSE "aclose"
    /\ client' = IF client = "open" THEN "closed" ELSE client
    /\ closed' = TRUE
    /\ opResult' = "none"
    /\ UNCHANGED op
    /\ UNCHANGED <<retryVars, toolVars>>
    /\ UNCHANGED <<cacheVars, skipped>>

\* the rest of resolve_library_id / get_library_docs once the retry wrapper
\* has returned or raised: a payload is parsed, anything else (None, or an
\* exception caught by "except Exception") gives None, resp. ""
OpReturn ==
    /\ op # "idle"
    /\ rpc = "returned"
    /\ opResult' = IF retryResult = "payload" THEN "parsed"
                   ELSE IF op = "resolve_library_id" THEN None ELSE ""
    /\ op' = "idle"
    /\ rpc' = "idle"
    /\ UNCHANGED <<closed, client, lastCall>>
    /\ UNCHANGED <<attempt, last_exception, calls, sleeps, outcomes, retryResult>>
    /\ UNCHANGED toolVars
    /\ UNCHANGED <<cacheVars, skipped>>

----------------------------------------------------------------------------
(* _execute_tool_with_retry *)

\* the handlers of the retry loop, applied to what _execute_tool returned or
\* raised as the loop's attempt-th invocation
RetryHandled(o) ==
    /\ outcomes' = Append(outcomes, o)
    /\ IF o \in {"payload", None}
         THEN \* return await self._execute_tool(...)
              /\ retryResult' = o
              /\ rpc' = "returned"
              /\ UNCHANGED <<attempt, last_exception, sleeps>>
         ELSE IF IsRetryable(o)
         THEN /\ last_exception' = o
              /\ attempt' = attempt + 1
              /\ sleeps' = IF SleepsBeforeRetry(attempt)
                             THEN Append(sleeps, WaitTime(attempt))
                             ELSE sleeps
              /\ IF attempt + 1 < MAX_RETRIES
                   THEN /\ rpc' = "call"
                        /\ retryResult' = "pending"
                   ELSE /\ rpc' = "returned"
                        /\ retryResult' = AfterLoop(o)
         ELSE IF IsNonRetryable(o)
         THEN \* break
              /\ rpc' = "returned"
              /\ retryResult' = AfterLoop(last_exception)
              /\ UNCHANGED <<attempt, last_exception, sleeps>>
         ELSE \* no handler: the exception leaves the wrapper
              /\ rpc' = "returned"
              /\ retryResult' = o
              /\ UNCHANGED <<attempt, last_exception, sleeps>>

----------------------------------------------------------------------------
(* _execute_tool: the main coroutine *)

GetStatuses == {200, 401, 500}
PostStatuses == {200, 202, 401, 404, 429, 502, 503, 504}

Running == {"pending", "streaming"}
Finished == {"finished", "failed", "cancelled"}

\* A variant whose finally block leaves the reader task alone.
CancelReaderSkipped(task) == task

\* finally: if sse_task and not sse_task.done(): sse_task.cancel();
\*          await sse_task (CancelledError swallowed)
CancelReader(task) == IF task \in Running THEN "cancelled" ELSE task

\* A variant that leaves the endpoint wait on whatever item comes first.
IsEndpointTupleAny(item) == TRUE

\* isinstance(item, tuple) and item[0] == "endpoint"
IsEndpointTuple(item) == item.isTuple /\ item.tag = "endpoint"

\* str(line) of a queue item
ItemText(item) == IF item.isTuple THEN "('endpoint', ...)" ELSE item.val

\* every way out of _execute_tool runs the finally block
Exit(o, which) ==
    /\ pc' = "returned"
    /\ toolOutcome' = o
    /\ timedOut' = which
    /\ sse_task' = CancelReader(sse_task)

\* one iteration of the retry loop up to the first await of _execute_tool:
\* _get_client, the queue, asyncio.create_task(sse_reader())
RetryAttempt ==
    /\ rpc = "call"
    /\ pc = "idle"
    /\ rpc' = "in_tool"
    /\ calls' = calls + 1
    /\ endpoint' = None
    /\ session_id' = None
    /\ result_queue' = <<>>
    /\ elapsed' = 0
    /\ sse_exc' = None
    /\ getStatus' = 0
    /\ postStatus' = 0
    /\ announced' = {}
    /\ posted' = NoPost
    /\ IF IsClosed(closed)
         THEN /\ pc' = "returned"
              /\ toolOutcome' = "Context7ClientError"
              /\ timedOut' = "none"
              /\ UNCHANGED <<client, sse_task>>
         ELSE /\ client' = OpenedClient(client)
              /\ sse_task' = "pending"
              /\ pc' = "wait_endpoint"
              /\ toolOutcome' = "pending"
              /\ timedOut' = "none"
    /\ skipped' = FALSE
    /\ UNCHANGED <<closed, lastCall, op, opResult>>
    /\ UNCHANGED <<attempt, last_exception, sleeps, outcomes, retryResult>>
    /\ UNCHANGED cacheVars

\* one more second passes inside asyncio.wait_for(result_queue.get(), ...)
Tick ==
    /\ \/ pc = "wait_endpoint" /\ elapsed < EndpointTimeout
       \/ pc = "collect" /\ elapsed < PayloadTimeout
    /\ result_queue = <<>>
    /\ elapsed' = elapsed + 1
    /\ UNCHANGED <<clientVars, retryVars>>
    /\ UNCHANGED <<pc, endpoint, session_id, result_queue, sse_task, sse_exc,
                   getStatus, postStatus, announced, posted, timedOut,
                   toolOutcome>>
    /\ UNCHANGED <<cacheVars, skipped>>

\* "Wait for endpoint": result_queue.get() delivered an item
WaitEndpointGet ==
    /\ pc = "wait_endpoint"
    /\ result_queue # <<>>
    /\ LET item == Head(result_queue) IN
         /\ result_queue' = Tail(result_queue)
         /\ elapsed' = 0
         /\ IF IsEndpointTuple(item)
              THEN /\ endpoint' = item.val
                   /\ session_id' = SessionIdOf(item.val)
                   /\ pc' = "post"
              ELSE UNCHANGED <<endpoint, session_id, pc>>
    /\ UNCHANGED <<clientVars, retryVars>>
    /\ UNCHANGED <<sse_task, sse_exc, getStatus, postStatus, announced,
                   posted, timedOut, toolOutcome>>
    /\ UNCHANGED <<cacheVars, skipped>>

\* "Wait for endpoint": except TimeoutError: return None
WaitEndpointTimeout ==
    /\ pc = "wait_endpoint"
    /\ result_queue = <<>>
    /\ elapsed = EndpointTimeout
    /\ Exit(None, "endpoint")
    /\ UNCHANGED <<clientVars, retryVars>>
    /\ UNCHANGED <<endpoint, session_id, result_queue, elapsed, sse_exc,
                   getStatus, postStatus, announced, posted>>
    /\ UNCHANGED <<cacheVars, skipped>>

\* client.post(messages_url, json=request_data, headers=headers) is sent
PostSend ==
    /\ pc = "post"
    /\ posted' = [url |-> MessagesUrl(endpoint), session |-> session_id]
    /\ pc' = "await_post"
    /\ UNCHANGED <<clientVars, retryVars>>
    /\ UNCHANGED <<endpoint, session_id, result_queue, elapsed, sse_task,
                   sse_exc, getStatus, postStatus, announced, timedOut,
                   toolOutcome>>
    /\ UNCHANGED <<cacheVars, skipped>>

\* the POST is answered: 401, the retry status codes and raise_for_status
PostResponse(status) ==
    /\ pc = "await_post"
    /\ postStatus' = status
    /\ IF status = 401
         THEN Exit("Context7AuthError", "none") /\ UNCHANGED elapsed
         ELSE IF status \in RETRY_STATUS_CODES
         THEN Exit("HTTPStatusError", "none") /\ UNCHANGED elapsed
         ELSE IF status >= 400
         THEN Exit("HTTPStatusError", "none") /\ UNCHANGED elapsed
         ELSE IF status = 202
         THEN /\ pc' = "collect"
              /\ elapsed' = 0
              /\ UNCHANGED <<toolOutcome, timedOut, sse_task>>
         ELSE Exit(None, "none") /\ UNCHANGED elapsed
    /\ UNCHANGED <<clientVars, retryVars>>
    /\ UNCHANGED <<endpoint, session_id, result_queue, sse_exc, getStatus,
                   announced, posted>>
    /\ UNCHANGED <<cacheVars, skipped>>

\* the POST raises: ConnectError is re-raised, TimeoutException returns None
PostException(exc) ==
    /\ pc = "await_post"
    /\ IF exc = "TimeoutException"
         THEN Exit(None, "post")
         ELSE Exit(exc, "none")
    /\ UNCHANGED <<clientVars, retryVars>>
    /\ UNCHANGED <<endpoint, session_id, result_queue, elapsed, sse_exc,
                   getStatus, postStatus, announced, posted>>
    /\ UNCHANGED <<cacheVars, skipped>>

\* "Collect response data": result_queue.get() delivered an item
CollectGet ==
    /\ pc = "collect"
    /\ result_queue # <<>>
    /\ LET line == Head(result_queue) IN
         /\ result_queue' = Tail(result_queue)
         /\ IF ~line.isTuple /\ StartsWithData(line.val)
              THEN IF /\ DataStr(line.val) # ""
                      /\ DataStr(line.val) # "[DONE]"
                      /\ IsJson(DataStr(line.val))
                     THEN Exit("payload", "none") /\ UNCHANGED <<elapsed, skipped>>
                     ELSE /\ elapsed' = 0
                          /\ skipped' = TRUE
                          /\ UNCHANGED <<pc, toolOutcome, timedOut, sse_task>>
              ELSE IF ContainsEventDone(ItemText(line))
                     THEN Exit(None, "none") /\ UNCHANGED <<elapsed, skipped>>
                     ELSE /\ elapsed' = 0
                          /\ UNCHANGED <<pc, toolOutcome, timedOut, sse_task, skipped>>
    /\ UNCHANGED <<clientVars, retryVars>>
    /\ UNCHANGED <<endpoint, session_id, sse_exc, getStatus, postStatus,
                   announced, posted>>
    /\ UNCHANGED cacheVars

\* "Collect response data": except TimeoutError: return None
CollectTimeout ==
    /\ pc = "collect"
    /\ result_queue = <<>>
    /\ elapsed = PayloadTimeout
    /\ Exit(None, "payload")
    /\ UNCHANGED <<clientVars, retryVars>>
    /\ UNCHANGED <<endpoint, session_id, result_queue, elapsed, sse_exc,
                   getStatus, postStatus, announced, posted>>
    /\ UNCHANGED <<cacheVars, skipped>>

\* the retry loop receives what _execute_tool returned or raised
RetryHandle ==
    /\ rpc = "in_tool"
    /\ pc = "returned"
    /\ RetryHandled(toolOutcome)
    /\ pc' = "idle"
    /\ UNCHANGED calls
    /\ UNCHANGED clientVars
    /\ UNCHANGED <<endpoint, session_id, result_queue, elapsed, sse_task,
                   sse_exc, getStatus, postStatus, announced, posted,
                   timedOut, toolOutcome>>
    /\ UNCHANGED <<cacheVars, skipped>>

----------------------------------------------------------------------------
(* _execute_tool: the reader task sse_reader and the server it reads from *)

\* client.stream("GET", sse_url) is answered with a status
SseConnect(status) ==
    /\ sse_task = "pending"
    /\ getStatus' = status
    /\ IF status = 401
         THEN sse_task' = "failed" /\ sse_exc' = "Context7AuthError"
         ELSE IF status >= 400
         THEN sse_task' = "failed" /\ sse_exc' = "HTTPStatusError"
         ELSE sse_task' = "streaming" /\ UNCHANGED sse_exc
    /\ UNCHANGED <<clientVars, retryVars>>
    /\ UNCHANGED <<pc, endpoint, session_id, result_queue, elapsed,
                   postStatus, announced, posted, timedOut, toolOutcome>>
    /\ UNCHANGED <<cacheVars, skipped>>

\* client.stream("GET", sse_url) raises httpx.ConnectError
SseConnectError ==
    /\ sse_task = "pending"
    /\ sse_task' = "failed"
    /\ sse_exc' = "ConnectError"
    /\ UNCHANGED <<clientVars, retryVars>>
    /\ UNCHANGED <<pc, endpoint, session_id, result_queue, elapsed, getStatus,
                   postStatus, announced, posted, timedOut, toolOutcome>>
    /\ UNCHANGED <<cacheVars, skipped>>

\* one iteration of "async for line in response.aiter_lines()"
SseLine(line) ==
    /\ sse_task = "streaming"
    /\ Len(result_queue) + (IF StartsWithDataMessages(line) THEN 2 ELSE 1)
         <= MaxQueue
    /\ result_queue' =
         IF StartsWithDataMessages(line)
           THEN result_queue \o <<StrItem(line), EndpointItem(EndpointData(line))>>
           ELSE Append(result_queue, StrItem(line))
    /\ announced' =
         IF line \in {"data: /messages?sessionId=s1", "data: /messages"}
           THEN announced \cup {EndpointData(line)}
           ELSE announced
    /\ UNCHANGED <<clientVars, retryVars>>
    /\ UNCHANGED <<pc, endpoint, session_id, elapsed, sse_task, sse_exc,
                   getStatus, postStatus, posted, timedOut, toolOutcome>>
    /\ UNCHANGED <<cacheVars, skipped>>

\* the server ends the stream: the reader task finishes
SseEnd ==
    /\ sse_task = "streaming"
    /\ sse_task' = "finished"
    /\ UNCHANGED <<clientVars, retryVars>>
    /\ UNCHANGED <<pc, endpoint, session_id, result_queue, elapsed, sse_exc,
                   getStatus, postStatus, announced, posted, timedOut,
                   toolOutcome>>
    /\ UNCHANGED <<cacheVars, skipped>>

----------------------------------------------------------------------------
(* The client as the enrichment service drives it *)

Next ==
    \/ ResolveLibraryId
    \/ GetLibraryDocs
    \/ GetClient
    \/ Aclose
    \/ OpReturn
    \/ RetryAttempt
    \/ RetryHandle
    \/ Tick
    \/ WaitEndpointGet
    \/ WaitEndpointTimeout
    \/ PostSend
    \/ \E status \in PostStatuses : PostResponse(status)
    \/ \E exc \in {"ConnectError", "TimeoutException"} : PostException(exc)
    \/ CollectGet
    \/ CollectTimeout
    \/ \E status \in GetStatuses : SseConnect(status)
    \/ SseConnectError
    \/ \E line \in Lines : SseLine(line)
    \/ SseEnd

Spec == Init /\ [][Next]_vars

\* The same client under the scheduling the event loop and the HTTP client
\* guarantee: a runnable coroutine is resumed, time passes while a wait_for
\* is pending, and every request is answered or fails (httpx.Timeout).  What
\* the server sends on the stream, and when, is left to the server.
FairSpec ==
    /\ Spec
    /\ WF_vars(OpReturn)
    /\ WF_vars(RetryAttempt)
    /\ WF_vars(RetryHandle)
    /\ WF_vars(Tick)
    /\ WF_vars(WaitEndpointGet)
    /\ WF_vars(WaitEndpointTimeout)
    /\ WF_vars(PostSend)
    /\ WF_vars((\E status \in PostStatuses : PostResponse(status))
                 \/ (\E exc \in {"ConnectError", "TimeoutException"} :
                        PostException(exc)))
    /\ WF_vars(CollectGet)
    /\ WF_vars(CollectTimeout)
    /\ WF_vars((\E status \in GetStatuses : SseConnect(status))
                 \/ SseConnectError)

----------------------------------------------------------------------------
(* _execute_tool_with_retry over a patched transport, as the unit tests run *)
(* it: patch.object(client, "_execute_tool", side_effect=...)               *)

TransportOutcomes == {"payload", None} \cup Exceptions

\* await client._execute_tool_with_retry("test-tool", {})
DirectRetryCall ==
    /\ op = "idle"
    /\ rpc \in {"idle", "returned"}
    /\ RetryEntered
    /\ UNCHANGED <<clientVars, toolVars>>
    /\ UNCHANGED <<cacheVars, skipped>>

\* one call of the patched _execute_tool: it returns or raises o
PatchedExecuteTool(o) ==
    /\ rpc = "call"
    /\ pc = "idle"
    /\ rpc' = "in_tool"
    /\ calls' = calls + 1
    /\ pc' = "returned"
    /\ toolOutcome' = o
    /\ UNCHANGED clientVars
    /\ UNCHANGED <<attempt, last_exception, sleeps, outcomes, retryResult>>
    /\ UNCHANGED <<endpoint, session_id, result_queue, elapsed, sse_task,
                   sse_exc, getStatus, postStatus, announced, posted, timedOut>>
    /\ UNCHANGED <<cacheVars, skipped>>

NextRetry ==
    \/ DirectRetryCall
    \/ \E o \in TransportOutcomes : PatchedExecuteTool(o)
    \/ RetryHandle

SpecRetry == Init /\ [][NextRetry]_vars

----------------------------------------------------------------------------
(* The enrichment service and its cache, run by concurrent command          *)
(* processes.  A step is the code between two accesses to the lock or to    *)
(* the files of the cache directory.  _acquire_lock waits up to 10 seconds: *)
(* it may time out whenever the lock is taken.                              *)

Upd(f, p, v) == [f EXCEPT ![p] = v]
Upd2(f, p, l, v) == [f EXCEPT ![p][l] = v]

\* A variant of the loop that takes the libraries from the end of the list.
LibLast(p) == todo[p][Len(todo[p])]

\* the library of the current iteration of the for loop
Lib(p) == Head(todo[p])
Key(p) == CacheKey(Lib(p), Step)

\* does the handle in self._lock_handle hold the lock of the cache directory
HoldsLock(p) == held[p] /\ lockOwner = p

\* _release_lock: the lock of the directory after p released its handle
Released(p) == IF HoldsLock(p) THEN Free ELSE lockOwner

\* _acquire_lock got the lock
Acquire(p) ==
    /\ lockOwner' = p
    /\ held' = Upd(held, p, TRUE)

\* an exception leaves the command; a finally clause releases the handle
Raise(p, where, exc) ==
    /\ ppc' = Upd(ppc, p, "raised")
    /\ raised' = Upd(raised, p, [where |-> where, exc |-> exc])
    /\ lockOwner' = Released(p)
    /\ held' = Upd(held, p, FALSE)

\* the for loop of enrich_prompt moves to the next library
Advance(p) ==
    /\ todo' = Upd(todo, p, Tail(todo[p]))
    /\ ppc' = Upd(ppc, p, IF Len(todo[p]) > 1 THEN "lookup" ELSE "compose")

NoteIndexOp(p, what) ==
    lastIndexOp' = [op |-> what, locked |-> HoldsLock(p)]

\* a lookup of key k ended with res (a body, or absent)
NoteLookup(k, res) == lastLookup' = [lastLookup EXCEPT ![k] = res]

\* a store, a clear or the passing of time ends the run of lookups
ForgetLookups == lastLookup' = [k \in Keys |-> NoLookup]

\* Context7Service.__init__ up to the exists() test of _load_cache_index.
Construct(p, c) ==
    /\ ppc[p] = "idle"
    /\ runs < MaxRuns
    /\ runs' = runs + 1
    /\ cmd' = Upd(cmd, p, c)
    /\ dirExists' = TRUE
    /\ IF diskIndex.state = "missing"
         THEN /\ ppc' = Upd(ppc, p, "ready")
              /\ memIndex' = Upd(memIndex, p, EmptyIndex)
         ELSE /\ ppc' = Upd(ppc, p, "load_acquire")
              /\ UNCHANGED memIndex
    /\ UNCHANGED <<clientSide, args, prompt, replies, loadTimeout, now, diskIndex, bodies, lockOwner, libraries, todo,
                   library_docs, library_id, docs, held, section, raised,
                   histVars>>

\* _load_cache_index: _acquire_lock
LoadAcquire(p) ==
    /\ ppc[p] = "load_acquire"
    /\ lockOwner = Free
    /\ IF dirExists
         THEN /\ Acquire(p)
              /\ ppc' = Upd(ppc, p, "load_read")
              /\ UNCHANGED raised
         ELSE Raise(p, "__init__", "FileNotFoundError")
    /\ UNCHANGED <<clientSide, args, prompt, replies, runs, loadTimeout, now, dirExists, diskIndex, bodies, cmd, memIndex, libraries,
                   todo, library_docs, library_id, docs, section, histVars>>

\* _load_cache_index: except TimeoutError: return {}
LoadAcquireTimeout(p) ==
    /\ ppc[p] = "load_acquire"
    /\ lockOwner # Free
    /\ dirExists
    /\ memIndex' = Upd(memIndex, p, EmptyIndex)
    /\ loadTimeout' = Upd(loadTimeout, p, TRUE)
    /\ ppc' = Upd(ppc, p, "ready")
    /\ UNCHANGED <<clientSide, args, prompt, replies, runs, diskVars, cmd, libraries, todo, library_docs, library_id,
                   docs, held, section, raised, histVars>>

\* _load_cache_index: json.loads(read_text()), finally _release_lock
LoadRead(p) ==
    /\ ppc[p] = "load_read"
    /\ IF diskIndex.state = "missing"
         THEN /\ Raise(p, "__init__", "FileNotFoundError")
              /\ UNCHANGED <<memIndex, lastIndexOp>>
         ELSE /\ memIndex' = Upd(memIndex, p, LoadIndex(diskIndex))
              /\ NoteIndexOp(p, "read")
              /\ lockOwner' = Released(p)
              /\ held' = Upd(held, p, FALSE)
              /\ ppc' = Upd(ppc, p, "ready")
              /\ UNCHANGED raised
    /\ UNCHANGED <<clientSide, args, prompt, replies, runs, loadTimeout, now, dirExists, diskIndex, bodies, cmd, libraries, todo,
                   library_docs, library_id, docs, section, netCalls, pre,
                   hitBody, wroteBody, wroteIndex, storeTimeout, persisted,
                   lastLookup>>

\* run_context --clear-cache: if cache_dir.exists(): shutil.rmtree(cache_dir)
ClearRmtree(p) ==
    /\ ppc[p] = "ready"
    /\ cmd[p] = "clear"
    /\ IF dirExists
         THEN /\ dirExists' = FALSE
              /\ diskIndex' = MissingIndex
              /\ bodies' = [k \in Keys |-> NoFile]
              /\ lockOwner' = Free
              /\ IF diskIndex.state = "missing" THEN UNCHANGED lastIndexOp
                 ELSE NoteIndexOp(p, "delete")
              /\ persisted' = {}
              /\ ForgetLookups
              /\ ppc' = Upd(ppc, p, "clear_mkdir")
         ELSE /\ ppc' = Upd(ppc, p, "returned")
              /\ UNCHANGED <<dirExists, diskIndex, bodies, lockOwner,
                             lastIndexOp, persisted, lastLookup>>
    /\ UNCHANGED <<clientSide, args, prompt, replies, runs, loadTimeout, now, cmd, memIndex, libraries, todo, library_docs,
                   library_id, docs, held, section, raised, netCalls, pre,
                   hitBody, wroteBody, wroteIndex, storeTimeout>>

\* run_context --clear-cache: cache_dir.mkdir()
ClearMkdir(p) ==
    /\ ppc[p] = "clear_mkdir"
    /\ IF dirExists
         THEN /\ Raise(p, "run_context", "FileExistsError")
              /\ UNCHANGED dirExists
         ELSE /\ dirExists' = TRUE
              /\ ppc' = Upd(ppc, p, "returned")
              /\ UNCHANGED <<lockOwner, held, raised>>
    /\ UNCHANGED <<clientSide, args, prompt, replies, runs, loadTimeout, now, diskIndex, bodies, cmd, memIndex, libraries, todo,
                   library_docs, library_id, docs, section, histVars>>

\* enrich_prompt up to the for loop: the candidate libraries
EnrichBegin(p, text, previous_content, force_libraries) ==
    /\ ppc[p] = "ready"
    /\ cmd[p] = "next"
    /\ LET libs == CandidateLibraries(force_libraries, Step, previous_content)
       IN /\ libraries' = Upd(libraries, p, libs)
          /\ todo' = Upd(todo, p, libs)
          /\ ppc' = Upd(ppc, p, IF libs = <<>> THEN "returned" ELSE "lookup")
    /\ args' = Upd(args, p, [prompt |-> text, previous_content |-> previous_content,
                             force_libraries |-> force_libraries])
    /\ prompt' = Upd(prompt, p, text)
    /\ UNCHANGED <<clientSide, replies, runs, loadTimeout, diskVars, cmd, memIndex, library_docs, library_id, docs,
                   held, section, raised, histVars>>

\* the cache check of one library
LookupCheck(p) ==
    /\ ppc[p] = "lookup"
    /\ LET k == Key(p)
           indexed == k \in DOMAIN memIndex[p]
           valid == IF indexed THEN IsCacheValid(memIndex[p][k], now) ELSE "False"
           bodyExists == bodies[k] # NoFile
           d == LookupDecision(indexed, valid, bodyExists)
       IN /\ pre' = Upd2(pre, p, Lib(p),
                         IF indexed /\ valid = "True"
                           THEN IF bodyExists THEN "valid, body" ELSE "valid, no body"
                           ELSE IF indexed /\ valid = "ValueError" THEN "bad stamp"
                           ELSE IF indexed /\ memIndex[p][k].hasTs THEN "expired"
                           ELSE "miss")
          /\ CASE d = "raise" ->
                    /\ Raise(p, "enrich_prompt", "ValueError")
                    /\ UNCHANGED <<todo, lastLookup>>
               [] d = "read" ->
                    /\ ppc' = Upd(ppc, p, "read_acquire")
                    /\ UNCHANGED <<todo, lockOwner, held, raised, lastLookup>>
               [] d = "skip" ->
                    /\ Advance(p)
                    /\ NoteLookup(k, IF loadTimeout[p] THEN Unlocked ELSE Absent)
                    /\ UNCHANGED <<lockOwner, held, raised>>
               [] d = "fetch" ->
                    /\ ppc' = Upd(ppc, p, "resolve")
                    /\ NoteLookup(k, IF loadTimeout[p] THEN Unlocked ELSE Absent)
                    /\ UNCHANGED <<todo, lockOwner, held, raised>>
    /\ UNCHANGED <<clientSide, args, prompt, replies, runs, loadTimeout, now, dirExists, diskIndex, bodies, cmd, memIndex, libraries,
                   library_docs, library_id, docs, section, netCalls, hitBody,
                   wroteBody, wroteIndex, storeTimeout, lastIndexOp, persisted>>

\* cache hit: _acquire_lock
ReadAcquire(p) ==
    /\ ppc[p] = "read_acquire"
    /\ lockOwner = Free
    /\ IF dirExists
         THEN /\ Acquire(p)
              /\ ppc' = Upd(ppc, p, "read_body")
              /\ UNCHANGED raised
         ELSE Raise(p, "enrich_prompt", "FileNotFoundError")
    /\ UNCHANGED <<clientSide, args, prompt, replies, runs, loadTimeout, now, dirExists, diskIndex, bodies, cmd, memIndex, libraries,
                   todo, library_docs, library_id, docs, section, histVars>>

\* cache hit: except TimeoutError: continue
ReadAcquireTimeout(p) ==
    /\ ppc[p] = "read_acquire"
    /\ lockOwner # Free
    /\ dirExists
    /\ hitBody' = Upd2(hitBody, p, Lib(p), "TimeoutError")
    /\ NoteLookup(Key(p), Unlocked)
    /\ Advance(p)
    /\ UNCHANGED <<clientSide, args, prompt, replies, runs, loadTimeout, diskVars, cmd, memIndex, libraries, library_docs,
                   library_id, docs, held, section, raised, netCalls, pre,
                   wroteBody, wroteIndex, storeTimeout, lastIndexOp, persisted>>

\* cache hit: library_docs[library] = cache_file.read_text(), finally release
ReadBody(p) ==
    /\ ppc[p] = "read_body"
    /\ IF bodies[Key(p)] = NoFile
         THEN /\ Raise(p, "enrich_prompt", "FileNotFoundError")
              /\ UNCHANGED <<todo, library_docs, hitBody, lastLookup>>
         ELSE /\ library_docs' = Upd(library_docs, p,
                     DictSet(library_docs[p], Lib(p), Fetched(bodies[Key(p)])))
              /\ hitBody' = Upd2(hitBody, p, Lib(p), bodies[Key(p)])
              /\ NoteLookup(Key(p), Fetched(bodies[Key(p)]))
              /\ lockOwner' = Released(p)
              /\ held' = Upd(held, p, FALSE)
              /\ Advance(p)
              /\ UNCHANGED raised
    /\ UNCHANGED <<clientSide, args, prompt, replies, runs, loadTimeout, now, dirExists, diskIndex, bodies, cmd, memIndex, libraries,
                   library_id, docs, section, netCalls, pre, wroteBody,
                   wroteIndex, storeTimeout, lastIndexOp, persisted>>

\* library_id = self.client.resolve_library_id(library): an id or None
Resolve(p, found) ==
    /\ ppc[p] = "resolve"
    /\ netCalls' = Upd(netCalls, p, netCalls[p] \cup {<<"resolve-library-id", Lib(p)>>})
    /\ IF found
         THEN /\ library_id' = Upd(library_id, p, IdOf(Lib(p)))
              /\ ppc' = Upd(ppc, p, "get_docs")
              /\ UNCHANGED <<todo, library_docs>>
         ELSE /\ library_id' = Upd(library_id, p, None)
              /\ library_docs' = Upd(library_docs, p,
                     DictSet(library_docs[p], Lib(p), CouldNotResolve(Lib(p))))
              /\ Advance(p)
    /\ replies' = Upd2(replies, p, Lib(p), IF found THEN "id" ELSE "no id")
    /\ UNCHANGED <<clientSide, args, prompt, runs, loadTimeout, diskVars, cmd, memIndex, libraries, docs, held, section,
                   raised, pre, hitBody, wroteBody, wroteIndex, storeTimeout,
                   lastIndexOp, persisted, lastLookup>>

\* A variant of the test that takes the empty text for documentation.
HasDocsAlways(text) == TRUE

\* if docs:
HasDocs(text) == text # ""

\* docs = self.client.get_library_docs(library_id, tokens=3000, topic=topic):
\* a text, or "" on every failure
GetDocs(p, text) ==
    /\ ppc[p] = "get_docs"
    /\ netCalls' = Upd(netCalls, p, netCalls[p] \cup {<<"get-library-docs", Lib(p)>>})
    /\ docs' = Upd(docs, p, text)
    /\ IF HasDocs(text)
         THEN /\ library_docs' = Upd(library_docs, p,
                     DictSet(library_docs[p], Lib(p), Fetched(text)))
              /\ ppc' = Upd(ppc, p, "store_acquire")
              /\ UNCHANGED todo
         ELSE /\ library_docs' = Upd(library_docs, p,
                     DictSet(library_docs[p], Lib(p), NotAvailable(Lib(p))))
              /\ Advance(p)
    /\ replies' = Upd2(replies, p, Lib(p), IF text # "" THEN "docs" ELSE "no docs")
    /\ UNCHANGED <<clientSide, args, prompt, runs, loadTimeout, diskVars, cmd, memIndex, libraries, library_id, held,
                   section, raised, pre, hitBody, wroteBody, wroteIndex,
                   storeTimeout, lastIndexOp, persisted, lastLookup>>

\* store: the outer _acquire_lock
StoreAcquire(p) ==
    /\ ppc[p] = "store_acquire"
    /\ lockOwner = Free
    /\ IF dirExists
         THEN /\ Acquire(p)
              /\ ppc' = Upd(ppc, p, "store_body")
              /\ UNCHANGED raised
         ELSE Raise(p, "enrich_prompt", "FileNotFoundError")
    /\ UNCHANGED <<clientSide, args, prompt, replies, runs, loadTimeout, now, dirExists, diskIndex, bodies, cmd, memIndex, libraries,
                   todo, library_docs, library_id, docs, section, histVars>>

\* store: the outer except TimeoutError
StoreAcquireTimeout(p) ==
    /\ ppc[p] = "store_acquire"
    /\ lockOwner # Free
    /\ dirExists
    /\ storeTimeout' = Upd2(storeTimeout, p, Lib(p), "outer")
    /\ Advance(p)
    /\ UNCHANGED <<clientSide, args, prompt, replies, runs, loadTimeout, diskVars, cmd, memIndex, libraries, library_docs,
                   library_id, docs, held, section, raised, netCalls, pre,
                   hitBody, wroteBody, wroteIndex, lastIndexOp, persisted,
                   lastLookup>>

\* store: cache_file.write_text(docs); self.cache_index[cache_key] = entry;
\* then _save_cache_index up to its own _acquire_lock, whose assignment to
\* self._lock_handle drops the handle that holds the lock: a reference
\* counting interpreter closes it at once (the lock is free for a moment),
\* another one keeps it open and the lock stays taken
StoreBody(p, collected) ==
    /\ ppc[p] = "store_body"
    /\ IF ~dirExists
         THEN /\ Raise(p, "enrich_prompt", "FileNotFoundError")
              /\ UNCHANGED <<bodies, memIndex, wroteBody, lastLookup>>
         ELSE /\ bodies' = [bodies EXCEPT ![Key(p)] = docs[p]]
              /\ memIndex' = Upd(memIndex, p,
                     IndexSet(memIndex[p], Key(p), NewEntry(now, library_id[p])))
              /\ wroteBody' = Upd(wroteBody, p, wroteBody[p] \cup {Key(p)})
              /\ ForgetLookups
              /\ lockOwner' = IF collected THEN Released(p) ELSE lockOwner
              /\ held' = Upd(held, p, FALSE)
              /\ ppc' = Upd(ppc, p, "save_acquire")
              /\ UNCHANGED raised
    /\ UNCHANGED <<clientSide, args, prompt, replies, runs, loadTimeout, now, dirExists, diskIndex, cmd, libraries, todo,
                   library_docs, library_id, docs, section, netCalls, pre,
                   hitBody, wroteIndex, storeTimeout, lastIndexOp, persisted>>

\* _save_cache_index: the nested _acquire_lock
SaveAcquire(p) ==
    /\ ppc[p] = "save_acquire"
    /\ lockOwner = Free
    /\ IF dirExists
         THEN /\ Acquire(p)
              /\ ppc' = Upd(ppc, p, "save_write")
              /\ UNCHANGED raised
         ELSE Raise(p, "enrich_prompt", "FileNotFoundError")
    /\ UNCHANGED <<clientSide, args, prompt, replies, runs, loadTimeout, now, dirExists, diskIndex, bodies, cmd, memIndex, libraries,
                   todo, library_docs, library_id, docs, section, histVars>>

\* _save_cache_index: except TimeoutError, then the outer finally
SaveAcquireTimeout(p) ==
    /\ ppc[p] = "save_acquire"
    /\ lockOwner # Free
    /\ dirExists
    /\ storeTimeout' = Upd2(storeTimeout, p, Lib(p), "inner")
    /\ Advance(p)
    /\ UNCHANGED <<clientSide, args, prompt, replies, runs, loadTimeout, diskVars, cmd, memIndex, libraries, library_docs,
                   library_id, docs, held, section, raised, netCalls, pre,
                   hitBody, wroteBody, wroteIndex, lastIndexOp, persisted,
                   lastLookup>>

\* _save_cache_index: write_text(json.dumps(self.cache_index)), finally
\* _release_lock; then the outer finally
SaveWrite(p) ==
    /\ ppc[p] = "save_write"
    /\ IF ~dirExists
         THEN /\ Raise(p, "enrich_prompt", "FileNotFoundError")
              /\ UNCHANGED <<diskIndex, todo, wroteIndex, lastIndexOp,
                             persisted, lastLookup>>
         ELSE /\ diskIndex' = DumpIndex(memIndex[p])
              /\ NoteIndexOp(p, "write")
              /\ wroteIndex' = Upd(wroteIndex, p, wroteIndex[p] \cup {Key(p)})
              /\ persisted' = persisted \cup {Key(p)}
              /\ ForgetLookups
              /\ lockOwner' = Released(p)
              /\ held' = Upd(held, p, FALSE)
              /\ Advance(p)
              /\ UNCHANGED raised
    /\ UNCHANGED <<clientSide, args, prompt, replies, runs, loadTimeout, now, dirExists, bodies, cmd, memIndex, libraries,
                   library_docs, library_id, docs, section, netCalls, pre,
                   hitBody, wroteBody, storeTimeout>>

\* context7_section = self.format_library_docs_section(library_docs), and
\* its insertion into the prompt
Compose(p) ==
    /\ ppc[p] = "compose"
    /\ section' = Upd(section, p, FormatSections(library_docs[p]))
    /\ prompt' = Upd(prompt, p, InsertSection(prompt[p]))
    /\ ppc' = Upd(ppc, p, "returned")
    /\ UNCHANGED <<clientSide, args, replies, runs, loadTimeout, diskVars, cmd, memIndex, libraries, todo, library_docs,
                   library_id, docs, held, raised, histVars>>

\* the command process ends: its files are closed, its locks dropped
ProcessExit(p) ==
    /\ ppc[p] \in {"returned", "raised"}
    /\ ppc' = Upd(ppc, p, "idle")
    /\ cmd' = Upd(cmd, p, "none")
    /\ memIndex' = Upd(memIndex, p, EmptyIndex)
    /\ libraries' = Upd(libraries, p, <<>>)
    /\ todo' = Upd(todo, p, <<>>)
    /\ library_docs' = Upd(library_docs, p, <<>>)
    /\ library_id' = Upd(library_id, p, None)
    /\ docs' = Upd(docs, p, "")
    /\ held' = Upd(held, p, FALSE)
    /\ section' = Upd(section, p, <<>>)
    /\ raised' = Upd(raised, p, NoRaise)
    /\ loadTimeout' = Upd(loadTimeout, p, FALSE)
    /\ lockOwner' = IF lockOwner = p THEN Free ELSE lockOwner
    /\ netCalls' = Upd(netCalls, p, {})
    /\ pre' = Upd(pre, p, [l \in Libraries |-> "none"])
    /\ hitBody' = Upd(hitBody, p, [l \in Libraries |-> NoRead])
    /\ wroteBody' = Upd(wroteBody, p, {})
    /\ wroteIndex' = Upd(wroteIndex, p, {})
    /\ storeTimeout' = Upd(storeTimeout, p, [l \in Libraries |-> "none"])
    /\ args' = Upd(args, p, [prompt |-> <<>>, force_libraries |-> <<>>,
                             previous_content |-> [l \in Libraries |-> "absent"]])
    /\ prompt' = Upd(prompt, p, <<>>)
    /\ replies' = Upd(replies, p, [l \in Libraries |-> "none"])
    /\ UNCHANGED <<clientSide, runs, now, dirExists, diskIndex, bodies, lastIndexOp, persisted,
                   lastLookup>>

\* time passes, in hours, between commands that take seconds
Tock ==
    /\ \A p \in Procs : ppc[p] = "idle"
    /\ \E t \in ClockValues : t > now /\ now' = t
    /\ ForgetLookups
    /\ UNCHANGED <<clientSide, args, prompt, replies, runs, dirExists, diskIndex, bodies, lockOwner, procVars, netCalls,
                   pre, hitBody, wroteBody, wroteIndex, storeTimeout,
                   lastIndexOp, persisted>>

CacheInit ==
    /\ ClientInit
    /\ now = 0
    /\ \E d \in InitialDisks :
         /\ dirExists = d.dir
         /\ diskIndex = d.index
         /\ bodies = d.files
    /\ lockOwner = Free
    /\ ProcsIdle
    /\ ValidityUnused
    /\ ScoreUnused
    /\ FlowUnused

NextCache ==
    \/ \E p \in Procs : \E c \in {"next", "clear"} : Construct(p, c)
    \/ \E p \in Procs : LoadAcquire(p)
    \/ \E p \in Procs : LoadAcquireTimeout(p)
    \/ \E p \in Procs : LoadRead(p)
    \/ \E p \in Procs : ClearRmtree(p)
    \/ \E p \in Procs : ClearMkdir(p)
    \/ \E p \in Procs : \E libs \in LibLists : 
          EnrichBegin(p, <<"# Title", "## Heading", "text">>,
                      [l \in Libraries |-> "absent"], libs)
    \/ \E p \in Procs : LookupCheck(p)
    \/ \E p \in Procs : ReadAcquire(p)
    \/ \E p \in Procs : ReadAcquireTimeout(p)
    \/ \E p \in Procs : ReadBody(p)
    \/ \E p \in Procs : \E found \in BOOLEAN : Resolve(p, found)
    \/ \E p \in Procs : \E text \in DocVersions \cup {""} : GetDocs(p, text)
    \/ \E p \in Procs : StoreAcquire(p)
    \/ \E p \in Procs : StoreAcquireTimeout(p)
    \/ \E p \in Procs : \E collected \in BOOLEAN : StoreBody(p, collected)
    \/ \E p \in Procs : SaveAcquire(p)
    \/ \E p \in Procs : SaveAcquireTimeout(p)
    \/ \E p \in Procs : SaveWrite(p)
    \/ \E p \in Procs : Compose(p)
    \/ \E p \in Procs : ProcessExit(p)
    \/ Tock

SpecCache == CacheInit /\ [][NextCache]_vars

----------------------------------------------------------------------------
(* One next command alone on the cache directory, with every prompt, every  *)
(* previous content and forced lists of up to two libraries.                *)

NextEnrich ==
    \/ Construct("p1", "next")
    \/ LoadAcquire("p1")
    \/ LoadRead("p1")
    \/ \E text \in Prompts : \E previous_content \in [Libraries -> {"absent", "part", "word"}] :
          \E force_libraries \in {<<>>, <<"react">>, <<"pytest">>,
                                   <<"react", "pytest">>, <<"pytest", "react">>} :
             EnrichBegin("p1", text, previous_content, force_libraries)
    \/ LookupCheck("p1")
    \/ ReadAcquire("p1")
    \/ ReadBody("p1")
    \/ \E found \in BOOLEAN : Resolve("p1", found)
    \/ \E text \in DocVersions \cup {""} : GetDocs("p1", text)
    \/ StoreAcquire("p1")
    \/ \E collected \in BOOLEAN : StoreBody("p1", collected)
    \/ SaveAcquire("p1")
    \/ SaveAcquireTimeout("p1")
    \/ SaveWrite("p1")
    \/ Compose("p1")
    \/ ProcessExit("p1")
    \/ Tock

SpecEnrich == CacheInit /\ [][NextEnrich]_vars

----------------------------------------------------------------------------
(* _is_cache_valid on its own, over clocks and entries *)

ValidityEntries ==
    {NewEntry(t, "/facebook/react") : t \in 0..MaxStamp}
        \cup {BadStampEntry("/facebook/react"), NoStampEntry("/facebook/react")}

ValidityInit ==
    /\ ClientInit
    /\ now = 0
    /\ dirExists = FALSE
    /\ diskIndex = MissingIndex
    /\ bodies = [k \in Keys |-> NoFile]
    /\ lockOwner = Free
    /\ ProcsIdle
    /\ runs = 0
    /\ vNow \in 0..MaxClock
    /\ vEntry \in ValidityEntries
    /\ vResult = "none"
    /\ ScoreUnused
    /\ FlowUnused

\* self._is_cache_valid(cache_entry) at clock vNow
CheckValidity ==
    /\ vResult = "none"
    /\ vResult' = IsCacheValid(vEntry, vNow)
    /\ UNCHANGED <<vNow, vEntry, clientVars, retryVars, toolVars, skipped, diskVars,
                   procVars, histVars, runs, args, prompt, replies,
                   parsed, best_match, lock, active, archived, stepFiles, promptFiles, last>>

NextValidity == CheckValidity

SpecValidity == ValidityInit /\ [][NextValidity]_vars

----------------------------------------------------------------------------
(* resolve_library_id: the choice among the libraries of a search result.   *)
(* Scores are kept in hundredths; a trust score is held in tenths.          *)

\* The libraries of one search result.
MaxCandidates == 3

\* the libraries _parse_library_results may give: a missing "Trust Score"
\* or "Code Snippets" line counts as 0 (lib.get(..., 0))
ParsedLibraries ==
    [name : {"React", "react-native", "Vue"},
     trustScore : {0, 10, 95},
     codeSnippetCount : {0, 1000, 2500}]

\* the score of one library, in hundredths
Score(lib, library_name) ==
    LET lower(n) == IF n = "React" THEN "react" ELSE IF n = "Vue" THEN "vue" ELSE n
        within(part, whole) ==
            \/ part = whole
            \/ part = "react" /\ whole = "react-native"
        capped == IF lib.codeSnippetCount < 10 * 100 THEN lib.codeSnippetCount
                  ELSE 10 * 100
    IN (IF lower(lib.name) = lower(library_name) THEN 100 * 100
        ELSE IF within(lower(library_name), lower(lib.name)) THEN 50 * 100
        ELSE 0)
       + lib.trustScore * 10 * 10
       + capped

\* A variant of the loop with "score >= best_score".
BestMatchKeepsLast(found, library_name) ==
    LET loop[i \in 0..Len(found)] ==
            IF i = 0 THEN [best_match |-> 0, best_score |-> -100]
            ELSE IF Score(found[i], library_name) >= loop[i - 1].best_score
                   THEN [best_match |-> i,
                         best_score |-> Score(found[i], library_name)]
                   ELSE loop[i - 1]
    IN loop[Len(found)].best_match

\* the for loop over the libraries: best_score starts at -1 and a library
\* replaces the best one only with a greater score
BestMatch(found, library_name) ==
    LET loop[i \in 0..Len(found)] ==
            IF i = 0 THEN [best_match |-> 0, best_score |-> -100]
            ELSE IF Score(found[i], library_name) > loop[i - 1].best_score
                   THEN [best_match |-> i,
                         best_score |-> Score(found[i], library_name)]
                   ELSE loop[i - 1]
    IN loop[Len(found)].best_match

ScoreInit ==
    /\ ClientInit
    /\ CacheUnused
    /\ parsed \in UNION {[1..n -> ParsedLibraries] : n \in 0..MaxCandidates}
    /\ best_match = 0
    /\ FlowUnused

\* resolve_library_id("react") on the parsed libraries
SelectBestMatch ==
    /\ best_match = 0
    /\ parsed # <<>>
    /\ best_match' = BestMatch(parsed, "react")
    /\ UNCHANGED <<parsed, clientVars, retryVars, toolVars, skipped, validityVars, diskVars,
                   procVars, histVars, runs, args, prompt, replies,
                   lock, active, archived, stepFiles, promptFiles, last>>

SpecScore == ScoreInit /\ [][SelectBestMatch]_vars

----------------------------------------------------------------------------
(* The commands new, next and done on one project, one after the other,     *)
(* and the user who saves or removes step files between them.  The          *)
(* workstream is the one of the slug "feature".                             *)

\* A variant with "idx + 1 > len(steps)".
AllStepsCompleteLate(idx) == idx + 1 > Len(steps)

\* _validate_workflow_state: "if idx + 1 >= len(steps)", idx counted from 0
AllStepsComplete(idx) == idx + 1 >= Len(steps)

\* run_new with a title whose slug is "feature"
RunNew ==
    /\ IF active
         THEN /\ last' = [cmd |-> "new", exit |-> "exit 1", lock |-> lock,
                          next_step |-> "", existed |-> FALSE, error |-> "",
                          called |-> FALSE, generated |-> FALSE, prompted |-> FALSE]
              /\ UNCHANGED <<lock, active, stepFiles, promptFiles>>
         ELSE /\ active' = TRUE
              /\ stepFiles' = {steps[1]}
              /\ promptFiles' = {}
              /\ lock' = [slug |-> "feature", current |-> steps[1]]
              /\ last' = [cmd |-> "new", exit |-> "ok", lock |-> lock,
                          next_step |-> "", existed |-> FALSE, error |-> "",
                          called |-> FALSE, generated |-> FALSE, prompted |-> FALSE]
    /\ UNCHANGED archived
    /\ UNCHANGED <<clientVars, retryVars, toolVars, skipped, validityVars, diskVars, procVars,
                   histVars, runs, args, prompt, replies, parsed, best_match>>

\* run_next.  direct: direct API calls are enabled for a provider other
\* than manual; outcome: what generate_text does; template: the prompt
\* template of the next step exists; enrichment: enrich_prompt returns or
\* raises (only when Context7 is enabled)
RunNext(direct, outcome, template, enrichment) ==
    LET ends(how, next_step, called, generated, prompted) ==
            last' = [cmd |-> "next", exit |-> how, lock |-> lock,
                     next_step |-> next_step,
                     existed |-> next_step \in stepFiles,
                     error |-> IF called /\ outcome # "text" THEN outcome ELSE "",
                     called |-> called, generated |-> generated,
                     prompted |-> prompted]
        \* steps.index(lock["current"]), from 0
        idx == (CHOOSE i \in DOMAIN steps : steps[i] = lock.current) - 1
    IN /\ IF lock = [slug |-> "", current |-> ""]
            THEN /\ ends("exit 1", "", FALSE, FALSE, FALSE)
                 /\ UNCHANGED <<lock, stepFiles, promptFiles>>
          ELSE IF \A i \in DOMAIN steps : steps[i] # lock.current
            THEN /\ ends("ValueError", "", FALSE, FALSE, FALSE)
                 /\ UNCHANGED <<lock, stepFiles, promptFiles>>
          ELSE IF AllStepsComplete(idx)
            THEN /\ ends("exit 0", "", FALSE, FALSE, FALSE)
                 /\ UNCHANGED <<lock, stepFiles, promptFiles>>
          ELSE IF idx + 2 \notin DOMAIN steps
            THEN /\ ends("IndexError", "", FALSE, FALSE, FALSE)
                 /\ UNCHANGED <<lock, stepFiles, promptFiles>>
          ELSE LET prev_step == steps[idx + 1]
                   next_step == steps[idx + 2]
               IN IF prev_step \notin stepFiles \/ ~template
                    THEN /\ ends("exit 1", next_step, FALSE, FALSE, FALSE)
                         /\ UNCHANGED <<lock, stepFiles, promptFiles>>
                  ELSE IF enrichment = "raises"
                    THEN /\ ends("exception", next_step, FALSE, FALSE, FALSE)
                         /\ UNCHANGED <<lock, stepFiles, promptFiles>>
                  ELSE LET generated == direct /\ outcome = "text"
                           prompted == ~generated
                           files == IF generated THEN stepFiles \cup {next_step}
                                    ELSE stepFiles
                           prompts == IF generated THEN promptFiles \ {next_step}
                                      ELSE promptFiles \cup {next_step}
                       IN /\ ends("ok", next_step, direct, generated, prompted)
                          /\ stepFiles' = files
                          \* _handle_next_step_file
                          /\ IF next_step \in files
                               THEN /\ lock' = [lock EXCEPT !.current = next_step]
                                    /\ promptFiles' = prompts \ {next_step}
                               ELSE /\ UNCHANGED lock
                                    /\ promptFiles' = prompts
       /\ UNCHANGED <<active, archived>>
       /\ UNCHANGED <<clientVars, retryVars, toolVars, skipped, validityVars, diskVars, procVars,
                   histVars, runs, args, prompt, replies, parsed, best_match>>

\* run_done.  moved: shutil.move succeeds; written: write_lock({}) succeeds
RunDone(moved, written) ==
    LET ends(how) ==
            last' = [cmd |-> "done", exit |-> how, lock |-> lock, next_step |-> "",
                     existed |-> \A i \in DOMAIN steps : steps[i] \in stepFiles,
                     error |-> "",
                     called |-> FALSE, generated |-> FALSE, prompted |-> FALSE]
    IN /\ IF \/ lock = [slug |-> "", current |-> ""]
             \/ lock.current # steps[Len(steps)]
             \/ \E i \in DOMAIN steps : steps[i] \notin stepFiles
             \/ ~moved
            THEN /\ ends("exit 1")
                 /\ UNCHANGED <<lock, active, archived, stepFiles, promptFiles>>
            ELSE /\ active' = FALSE
                 /\ archived' = TRUE
                 /\ stepFiles' = {}
                 /\ promptFiles' = {}
                 /\ IF written
                      THEN /\ lock' = [slug |-> "", current |-> ""]
                           /\ ends("ok")
                      ELSE /\ UNCHANGED lock
                           /\ ends("exit 1")
       /\ UNCHANGED <<clientVars, retryVars, toolVars, skipped, validityVars, diskVars, procVars,
                   histVars, runs, args, prompt, replies, parsed, best_match>>

\* the user saves the file of a step into the active folder, or removes it
UserEdits(step, saved) ==
    /\ active
    /\ stepFiles' = IF saved THEN stepFiles \cup {step} ELSE stepFiles \ {step}
    /\ stepFiles' # stepFiles
    /\ last' = [cmd |-> "user", exit |-> "", lock |-> lock,
                next_step |-> "", existed |-> FALSE, error |-> "",
                called |-> FALSE, generated |-> FALSE, prompted |-> FALSE]
    /\ UNCHANGED <<lock, active, archived, promptFiles>>
    /\ UNCHANGED <<clientVars, retryVars, toolVars, skipped, validityVars, diskVars, procVars,
                   histVars, runs, args, prompt, replies, parsed, best_match>>

NextFlow ==
    \/ RunNew
    \/ \E direct \in BOOLEAN :
          \E outcome \in {"text", "ApiKeyMissingError", "UnsupportedProviderError",
                           "OpenAIError", "AiServiceError", "Exception"} :
             \E template \in BOOLEAN : \E enrichment \in {"returns", "raises"} :
                RunNext(direct, outcome, template, enrichment)
    \/ \E moved \in BOOLEAN : \E written \in BOOLEAN : RunDone(moved, written)
    \/ \E i \in DOMAIN steps : \E saved \in BOOLEAN : UserEdits(steps[i], saved)

SpecFlow == Init /\ [][NextFlow]_vars

----------------------------------------------------------------------------
(* Properties *)

InTool == pc \in {"wait_endpoint", "post", "await_post", "collect"}

\* C1: within one tool invocation the POST is never issued before the SSE
\* stream has delivered a line beginning with "data: /messages", and the
\* POST URL and the MCP-Session-Id header are derived from an endpoint that
\* the stream announced.
C1_PostOnlyAfterAnnouncement ==
    posted # NoPost =>
        \E e \in announced :
            /\ e \in {"/messages?sessionId=s1", "/messages"}
            /\ posted.url = <<BaseUrl, e>>
            /\ posted.session = IF e = "/messages?sessionId=s1" THEN "s1" ELSE None

C1_Witness ==
    /\ pc = "await_post"
    /\ posted = [url |-> <<BaseUrl, "/messages?sessionId=s1">>, session |-> "s1"]

\* C2: when every transport attempt raises a timeout, the retry wrapper
\* invokes the transport exactly 3 times, sleeps exactly twice (1s, then 2s,
\* nothing after the third failure) and returns None.
C2_RetryBoundOnTimeout ==
    ( /\ rpc = "returned"
      /\ outcomes # <<>>
      /\ \A i \in DOMAIN outcomes :
            outcomes[i] \in {"TimeoutException", "Context7TimeoutError"} )
    => /\ calls = 3
       /\ Len(outcomes) = 3
       /\ sleeps = <<1, 2>>
       /\ retryResult = None

C2_Witness ==
    /\ rpc = "returned"
    /\ outcomes = <<"Context7TimeoutError", "Context7TimeoutError",
                    "Context7TimeoutError">>
    /\ calls = 3

\* C3: when the transport raises an authentication error on the first
\* attempt, the retry wrapper invokes the transport exactly once, does not
\* sleep and returns None.
C3_NoRetryOnAuthError ==
    ( /\ rpc = "returned"
      /\ outcomes # <<>>
      /\ outcomes[1] = "Context7AuthError" )
    => /\ calls = 1
       /\ outcomes = <<"Context7AuthError">>
       /\ sleeps = <<>>
       /\ retryResult = None

C3_Witness ==
    /\ rpc = "returned"
    /\ outcomes = <<"Context7AuthError">>
    /\ retryResult = None

\* C4: when the POST answers 502, 503, 504 or 429 the attempt is treated as
\* transient: the invocation is attempted again, so a retry run whose last
\* POST got such a status ends only after 3 attempts and 2 backoff sleeps,
\* with None and no exception.
C4_RetryStatusIsRetried ==
    ( /\ rpc = "returned"
      /\ postStatus \in {502, 503, 504, 429} )
    => /\ calls = 3
       /\ sleeps = <<1, 2>>
       /\ retryResult = None

\* C5: when the wait for the endpoint announcement or for the result
\* payload elapses, or the POST times out, _execute_tool raises
\* Context7TimeoutError.
C5_TimeoutIsSignalled ==
    (pc = "returned" /\ timedOut # "none")
    => toolOutcome = "Context7TimeoutError"

\* C6: a 401 on the SSE GET or on the POST makes _execute_tool raise
\* Context7AuthError, and no further attempt follows that invocation.
C6_UnauthorizedIsSignalled ==
    /\ (pc = "returned" /\ (getStatus = 401 \/ postStatus = 401))
         => toolOutcome = "Context7AuthError"
    /\ (rpc = "call" /\ pc = "idle")
         => (getStatus # 401 /\ postStatus # 401)

\* C7: on every exit path of _execute_tool the reader task has finished or
\* has been cancelled and awaited: outside an invocation no reader task is
\* pending or streaming.
C7_NoReaderOutlivesInvocation ==
    ~InTool => sse_task \in {"none"} \cup Finished

C7_Witness ==
    /\ pc = "returned"
    /\ toolOutcome = "payload"
    /\ sse_task = "cancelled"

\* C8: every tool invocation terminates, whatever lines the server sends:
\* an invocation that has started eventually returns or raises.
C8_InvocationTerminates == InTool ~> (pc = "returned")

\* C9: the retry wrapper never propagates a connect failure, a timeout, an
\* HTTP status error or an authentication error raised by the transport:
\* after one attempt or after the last one, its outcome is None.
C9_RetryNeverRaises ==
    ( /\ rpc = "returned"
      /\ outcomes # <<>>
      /\ outcomes[Len(outcomes)] \in
            {"ConnectError", "TimeoutException", "Context7TimeoutError",
             "HTTPStatusError", "Context7AuthError"} )
    => retryResult = None

C9_Witness ==
    /\ rpc = "returned"
    /\ outcomes = <<"ConnectError", "TimeoutException", "ConnectError">>
    /\ retryResult = None

\* C10: after the client has been closed, resolve_library_id,
\* get_library_docs and _get_client raise Context7ClientError; they start no
\* retry run, no tool invocation and open no HTTP client.
C10_ClosedClientRaises ==
    ( /\ closed
      /\ lastCall \in {"resolve_library_id", "get_library_docs", "_get_client"} )
    => /\ opResult = "Context7ClientError"
       /\ op = "idle"
       /\ rpc = "idle"
       /\ pc = "idle"
       /\ client # "open"

C10_Witness ==
    /\ closed
    /\ lastCall = "get_library_docs"
    /\ opResult = "Context7ClientError"
    /\ client = "closed"

----------------------------------------------------------------------------
(* The validity window *)

\* C17: a cache entry is valid if and only if it has a timestamp and the
\* clock minus that timestamp is strictly less than 7 days (168 hours): 167
\* hours is valid, 168 and 169 hours are not; an entry without a timestamp
\* is invalid.
C17_ValidIffYoungerThanSevenDays ==
    (vResult # "none" /\ (vEntry.hasTs => vEntry.tsOk))
    => /\ (vResult = "True") <=> (vEntry.hasTs /\ vNow - vEntry.ts < 7 * 24)
       /\ (vResult = "False") <=> ~(vEntry.hasTs /\ vNow - vEntry.ts < 7 * 24)
       /\ (vEntry.hasTs /\ vNow - vEntry.ts = 7 * 24 - 1) => vResult = "True"
       /\ (vEntry.hasTs /\ vNow - vEntry.ts = 7 * 24) => vResult = "False"
       /\ (vEntry.hasTs /\ vNow - vEntry.ts = 7 * 24 + 1) => vResult = "False"
       /\ ~vEntry.hasTs => vResult = "False"

C17_Witness ==
    /\ vEntry.hasTs
    /\ vEntry.tsOk
    /\ vNow - vEntry.ts = 7 * 24
    /\ vResult = "False"

----------------------------------------------------------------------------
(* The cache shared by concurrent commands *)

\* C11: in every interleaving of commands on one cache directory, index.json
\* is read, written or deleted only by a process that holds the cache lock
\* at that moment.
C11_IndexAccessOnlyUnderLock == lastIndexOp.locked

\* C12: after an invocation fetched documentation for (library, step) and
\* its store ran with the cache lock available, the entry is persisted: as
\* long as the cache is not cleared, index.json holds the entry, so that a
\* later invocation that loads the index finds it.
C12_PersistedEntryStaysInIndex ==
    \A k \in persisted : k \in DOMAIN LoadIndex(diskIndex)

\* the enrich_prompt of p has returned
Returned(p) == ppc[p] = "returned" /\ cmd[p] = "next"

\* was library l fetched from the network by p
ResolveCalled(p, l) == <<"resolve-library-id", l>> \in netCalls[p]

----------------------------------------------------------------------------
(* Lookup, store and their failure paths *)

\* C13: if the index holds a valid entry for a key but the body file of the
\* key is missing, enrichment treats it as a cache miss: it resolves and
\* fetches the library again, and raises no error.
C13_MissingBodyIsCacheMiss ==
    \A p \in Procs : \A l \in Libraries :
        (Returned(p) /\ pre[p][l] = "valid, no body") => ResolveCalled(p, l)

\* the candidate libraries of the enrich_prompt of p
Candidates(p) == {libraries[p][i] : i \in DOMAIN libraries[p]}

\* C14: when the cache lock cannot be acquired within the timeout on a read
\* path (loading the index, reading a cached body), the cache is treated as
\* empty for that read: no exception reaches the caller and enrichment
\* proceeds for that library as on a cache miss, i.e. it resolves and
\* fetches it.
C14_ReadLockTimeoutIsCacheMiss ==
    \A p \in Procs :
        /\ raised[p].exc # "TimeoutError"
        /\ \A l \in Candidates(p) :
              (Returned(p) /\ (loadTimeout[p] \/ hitBody[p][l] = "TimeoutError"))
                  => ResolveCalled(p, l)

\* the section of p has a subheading for library l whose text is in texts
HasSubsection(p, l, texts) ==
    \E i \in DOMAIN section[p] :
        section[p][i].heading = Title(l) /\ section[p][i].text \in texts

\* C15: when the cache lock cannot be acquired on the write path after a
\* successful fetch, nothing is persisted (no body file written, no index
\* entry added or changed), no exception is raised, and the fetched
\* documentation still appears in the enriched prompt of that invocation.
C15_WriteLockTimeoutPersistsNothing ==
    \A p \in Procs : \A l \in Libraries :
        storeTimeout[p][l] # "none"
        => /\ CacheKey(l, Step) \notin wroteBody[p]
           /\ CacheKey(l, Step) \notin wroteIndex[p]
           /\ raised[p].exc # "TimeoutError"
           /\ Returned(p) => HasSubsection(p, l, {Fetched(d) : d \in DocVersions})

\* the texts a body file may hold
BodyTexts == {"# Docs v1"} \cup DocVersions

\* was any client call made for library l by p
NetworkUsed(p, l) ==
    \E tool \in {"resolve-library-id", "get-library-docs"} : <<tool, l>> \in netCalls[p]

C18_LookupIdempotent ==
    [][\A k \in Keys :
          /\ ( /\ lastLookup[k] \notin {NoLookup, Unlocked}
               /\ lastLookup'[k] \notin {NoLookup, Unlocked} )
             => lastLookup'[k] = lastLookup[k]
          /\ ( /\ lastLookup'[k] # lastLookup[k]
               /\ lastLookup'[k] # NoLookup )
             => UNCHANGED <<diskIndex, bodies>>]_vars

\* C19: enrich_prompt never raises: for every state of the cache (a
\* malformed index entry, an unreadable or unwritable body file, a lock
\* timeout) and every outcome of the network calls it returns a prompt.
C19_EnrichNeverRaises ==
    \A p \in Procs : raised[p].where # "enrich_prompt"

----------------------------------------------------------------------------
(* The composed section *)

\* what the subsection of library l may carry: documentation or one of the
\* failure placeholders
SubsectionTexts(l) ==
    {Fetched(b) : b \in BodyTexts} \cup {CouldNotResolve(l), NotAvailable(l)}

\* C20: for every library in the candidate set, the composed section has a
\* subheading for it that carries either its documentation or a failure
\* placeholder; no candidate library is left out of the section.
C20_EveryCandidateHasSubsection ==
    \A p \in Procs :
        Returned(p)
        => \A l \in Candidates(p) : HasSubsection(p, l, SubsectionTexts(l))

----------------------------------------------------------------------------
(* Failure placeholders, the empty candidate set, the placeholder *)

\* C21: when resolution of a library returns no identifier, the enriched
\* prompt carries "Could not resolve library: <name>" for it and
\* get-library-docs is never invoked for that library; when resolution
\* succeeds but the fetch returns nothing, the prompt carries "Documentation
\* not available for <name>"; in both cases the loop goes on with the
\* remaining libraries.
C21_FailurePlaceholders ==
    \A p \in Procs : \A l \in Libraries :
        /\ replies[p][l] = "no id" => <<"get-library-docs", l>> \notin netCalls[p]
        /\ replies[p][l] \in {"no id", "no docs"}
           => \A i \in DOMAIN todo[p] : todo[p][i] # l
        /\ (Returned(p) /\ replies[p][l] = "no id")
           => /\ HasSubsection(p, l, {<<"<!-- Could not resolve library: ", l, " -->">>})
              /\ (\E i \in DOMAIN prompt[p] : prompt[p][i] = "{context7_section}")
              /\ \A other \in Candidates(p) : pre[p][other] # "none"
        /\ (Returned(p) /\ replies[p][l] = "no docs")
           => /\ HasSubsection(p, l, {<<"<!-- Documentation not available for ", l, " -->">>})
              /\ (\E i \in DOMAIN prompt[p] : prompt[p][i] = "{context7_section}")
              /\ \A other \in Candidates(p) : pre[p][other] # "none"

C21_Witness ==
    /\ Returned("p1")
    /\ libraries["p1"] = <<"react", "pytest">>
    /\ replies["p1"] = [l \in Libraries |-> IF l = "react" THEN "no id" ELSE "no docs"]
    /\ section["p1"] = <<[heading |-> "React",
                          text |-> <<"<!-- Could not resolve library: ", "react", " -->">>],
                         [heading |-> "Pytest",
                          text |-> <<"<!-- Documentation not available for ", "pytest", " -->">>]>>

C23_WholePlaceholderReplaced ==
    \A p \in Procs :
        ( /\ Returned(p)
          /\ libraries[p] # <<>>
          /\ \E i \in DOMAIN args[p].prompt : args[p].prompt[i] = "<context7_docs>" )
        => /\ (\E i \in DOMAIN prompt[p] : prompt[p][i] = "{context7_section}")
           /\ ~(\E i \in DOMAIN prompt[p] : prompt[p][i] = "<context7_docs>")
           /\ ~(\E i \in DOMAIN prompt[p] : prompt[p][i] = "</context7_docs>")
           /\ ~(\E i \in DOMAIN prompt[p] : prompt[p][i] = "placeholder")

----------------------------------------------------------------------------
(* Clearing the cache *)

\* C24: after clear completes, the cache directory exists and holds no
\* index and no body file, so the next lookup of any key by a new
\* invocation is a miss.
C24_ClearLeavesEmptyDirectory ==
    [][\A p \in Procs :
          (cmd[p] = "clear" /\ ppc[p] # "returned" /\ ppc'[p] = "returned")
          => /\ dirExists'
             /\ diskIndex' = MissingIndex
             /\ \A k \in Keys : bodies'[k] = NoFile]_vars

----------------------------------------------------------------------------
(* The library selected from a search result *)

\* C25: among the candidates parsed from a search result, the one with the
\* highest score is selected, where score = 100 for an exact
\* case-insensitive name match, else 50 for a substring match, plus
\* trust_score*10, plus min(snippet_count/100, 10); on a tie the first
\* candidate encountered is kept.  (Scores in hundredths, trust in tenths.)
C25_HighestScoreFirstOnTie ==
    LET points(lib) ==
            (IF lib.name = "React" THEN 10000
             ELSE IF lib.name = "react-native" THEN 5000 ELSE 0)
            + 100 * lib.trustScore
            + (IF lib.codeSnippetCount <= 1000 THEN lib.codeSnippetCount ELSE 1000)
    IN best_match # 0
       => /\ best_match \in DOMAIN parsed
          /\ \A j \in DOMAIN parsed : points(parsed[j]) <= points(parsed[best_match])
          /\ \A j \in 1..(best_match - 1) :
                points(parsed[j]) < points(parsed[best_match])

C25_Witness ==
    /\ Len(parsed) = 3
    /\ best_match = 2
    /\ parsed[1] = [name |-> "react-native", trustScore |-> 10, codeSnippetCount |-> 2500]
    /\ parsed[2] = [name |-> "React", trustScore |-> 10, codeSnippetCount |-> 0]
    /\ parsed[3] = [name |-> "React", trustScore |-> 0, codeSnippetCount |-> 1000]

----------------------------------------------------------------------------
(* The workflow commands *)

\* C26: run_next sets the lock's current step to the next step if and only
\* if that step's output file exists when the run ends; otherwise the lock
\* file is not written and the current step stays unchanged, so running
\* next repeatedly without creating the file never advances the workflow.
C26_LockAdvancesIffFileExists ==
    (last.cmd = "next" /\ last.next_step # "")
    => IF last.next_step \in stepFiles
         THEN lock = [last.lock EXCEPT !.current = last.next_step]
         ELSE lock = last.lock

\* C27: when direct API generation raises any error (missing API key,
\* unsupported provider, provider error, generic service error, unexpected
\* exception), run_next writes the manual prompt file with the merged
\* prompt, does not write the next step's file and does not advance the
\* lock.
C27_GenerationErrorFallsBackToManual ==
    (last.cmd = "next" /\ last.error # "")
    => /\ last.prompted
       /\ last.next_step \in promptFiles
       /\ ~last.generated
       /\ lock = last.lock

\* C28: when the next step's file already exists when run_next starts,
\* run_next does not call the AI provider and does not write or overwrite
\* that file or a prompt file for manual use; it only advances the lock to
\* that step and leaves no prompt file behind.  (For the runs that pass the
\* validation of the lock and of the required files.)
C28_ExistingFileOnlyAdvances ==
    (last.cmd = "next" /\ last.exit = "ok" /\ last.existed)
    => /\ ~last.called
       /\ ~last.generated
       /\ ~last.prompted
       /\ lock = [last.lock EXCEPT !.current = last.next_step]
       /\ last.next_step \notin promptFiles

\* C29: run_done archives the workstream (moves its folder to the done
\* directory and resets the lock to empty) only when the lock's current
\* step is the last configured step and every step's file exists; in every
\* other case, including a failed move, the folder stays in the active
\* directory and the lock is left unchanged.
C29_DoneArchivesOnlyWhenComplete ==
    /\ (last.cmd = "done" /\ last.exit = "ok")
       => /\ last.lock.current = steps[Len(steps)]
          /\ last.existed
          /\ archived /\ ~active
          /\ lock = [slug |-> "", current |-> ""]
    /\ (last.cmd = "done" /\ last.exit # "ok")
       => /\ lock = last.lock
          /\ (last.lock.slug # "" /\ last.existed) => active

\* C30: across any sequence of new, next and done commands, a non-empty
\* lock always names a configured step: new sets it to the first step, each
\* next advances it by at most one position and never backwards, and it is
\* never advanced past the last step (next at the last step exits 0 without
\* writing the lock or generating anything).
C30_LockNamesConfiguredStep ==
    LET position(step) == CHOOSE i \in DOMAIN steps : steps[i] = step
        configured(l) == \E i \in DOMAIN steps : steps[i] = l.current
    IN /\ lock.slug # "" => configured(lock)
       /\ (last.cmd = "new" /\ last.exit = "ok") => lock.current = steps[1]
       /\ (last.cmd = "next" /\ configured(lock) /\ configured(last.lock))
          => /\ lock.slug = last.lock.slug
             /\ position(lock.current) - position(last.lock.current) \in {0, 1}
       /\ (last.cmd = "next" /\ last.lock.current = steps[Len(steps)])
          => /\ last.exit = "exit 0"
             /\ lock = last.lock
             /\ ~last.called /\ ~last.generated /\ ~last.prompted

C30_Witness ==
    /\ last.cmd = "next"
    /\ last.exit = "exit 0"
    /\ lock = [slug |-> "feature", current |-> "2-prd-plus"]
    /\ stepFiles = {"0-idea", "1-prd", "2-prd-plus"}

----------------------------------------------------------------------------
(* The shared cache: index and body files, expiry, order, locking *)

\* C31: in every reachable state of the shared on-disk cache, under any
\* interleaving of stores and clears by concurrent invocations, every key
\* in the persisted index has a corresponding body file.  (As a property of
\* every step: a cache in which every indexed key has its body file is
\* still such a cache after the step.)
C31_IndexedKeyHasBody ==
    [][(\A k \in DOMAIN LoadIndex(diskIndex) : bodies[k] # NoFile)
       => (\A k \in DOMAIN LoadIndex(diskIndex') : bodies'[k] # NoFile)]_vars

\* C32: an entry whose age is 7 days or more is treated as absent:
\* enrichment fetches the library from the network again and, on a
\* successful fetch, overwrites the body file and the index entry with the
\* current timestamp and the resolved library id.
C32_ExpiredEntryRefetched ==
    \A p \in Procs : \A l \in Libraries :
        (Returned(p) /\ pre[p][l] = "expired")
        => /\ ResolveCalled(p, l)
           /\ replies[p][l] = "docs"
              => /\ bodies[CacheKey(l, Step)] = "# Docs v2"
                 /\ CacheKey(l, Step) \in DOMAIN LoadIndex(diskIndex)
                 /\ LoadIndex(diskIndex)[CacheKey(l, Step)] = NewEntry(now, IdOf(l))

\* C33: libraries are processed strictly one after another in candidate
\* order: for each library resolve-library-id completes before its
\* get-library-docs starts, and both complete (or fail) before any cache
\* access or network call for the next library begins.
C33_OneLibraryAtATime ==
    \A p \in Procs :
        LET done == Len(libraries[p]) - Len(todo[p])
        IN \A i \in DOMAIN libraries[p] :
              LET l == libraries[p][i]
              IN /\ <<"get-library-docs", l>> \in netCalls[p]
                    => /\ <<"resolve-library-id", l>> \in netCalls[p]
                       /\ replies[p][l] \in {"docs", "no docs"}
                 /\ i <= done => replies[p][l] # "id"
                 /\ i > done + 1
                    => /\ pre[p][l] = "none"
                       /\ hitBody[p][l] = NoRead
                       /\ replies[p][l] = "none"
                       /\ ~NetworkUsed(p, l)
                       /\ CacheKey(l, Step) \notin wroteBody[p] \cup wroteIndex[p]

C33_Witness ==
    /\ ppc["p1"] = "get_docs"
    /\ libraries["p1"] = <<"react", "pytest">>
    /\ todo["p1"] = <<"pytest">>
    /\ replies["p1"] = [l \in Libraries |-> IF l = "react" THEN "docs" ELSE "id"]
    /\ wroteIndex["p1"] = {CacheKey("react", Step)}

----------------------------------------------------------------------------
(* The payload wait of the client, and closing it *)

\* C34: after an accepted (202) POST, a data line whose content is not
\* valid JSON is skipped and the wait continues; the invocation returns the
\* first later data line that parses as JSON, or absent if a terminal
\* "event: done" line arrives first.
C34_BadJsonSkipped ==
    [][(pc = "collect" /\ result_queue # <<>> /\ result_queue' = Tail(result_queue))
       => LET item == Head(result_queue)
          IN /\ (~item.isTuple /\ item.val \in {"data: not json", "data: /messages"})
                => pc' = "collect" /\ toolOutcome' = toolOutcome
             /\ (~item.isTuple /\ item.val = "data: {\"result\": {}}")
                => pc' = "returned" /\ toolOutcome' = "payload"
             /\ (~item.isTuple /\ item.val = "event: done")
                => pc' = "returned" /\ toolOutcome' = None]_vars

C34_Witness ==
    /\ skipped
    /\ postStatus = 202
    /\ pc = "returned"
    /\ toolOutcome = "payload"

\* C35: closing the client is permanent and idempotent: once aclose has
\* completed the closed flag stays set under every later operation (nothing
\* re-opens the client), and calling aclose again does not raise.
C35_ClosePermanentAndIdempotent ==
    [][/\ closed => (closed' /\ client' # "open")
       /\ lastCall' \in {"aclose", "aclose again"}
          => (closed' /\ opResult' = "none" /\ client' # "open")]_vars

C35_Witness ==
    /\ closed
    /\ lastCall = "aclose again"
    /\ opResult = "none"
    /\ client = "closed"

----------------------------------------------------------------------------
(* Stores of concurrent invocations *)

\* C36: no store is lost across processes: when two invocations sharing one
\* cache directory each store a different key (and the cache is not cleared
\* meanwhile), in any interleaving of their index loads and stores, the
\* persisted index afterwards contains both entries.
C36_NoStoreLost ==
    \A p \in Procs : \A q \in Procs \ {p} :
        \A k \in wroteIndex[p] : \A j \in wroteIndex[q] \ {k} :
            (Returned(p) /\ Returned(q) /\ {k, j} \subseteq persisted)
            => {k, j} \subseteq DOMAIN LoadIndex(diskIndex)

\* C37: a process never tries to acquire the cache lock while it already
\* holds it, and during a store the lock is held continuously from the
\* body-file write until the index has been persisted and is then released
\* exactly once.
C37_NoNestedAcquire ==
    \A p \in Procs :
        /\ ppc[p] \in {"load_acquire", "read_acquire", "store_acquire", "save_acquire"}
           => lockOwner # p
        /\ ppc[p] \in {"save_acquire", "save_write"} => HoldsLock(p)
        /\ ppc[p] \in {"compose", "returned"} => lockOwner # p

----------------------------------------------------------------------------
(* Failed fetches and the cache *)

\* C38: when resolution fails or the documentation fetch returns nothing,
\* the cache is left unchanged: the failing step changes neither a body file
\* nor the index (on disk or in memory), the run goes on to no store for the
\* library, and what the cache holds and serves is documentation, never a
\* failure placeholder or the empty text.
C38_FailureLeavesCacheUnchanged ==
    [][\A p \in Procs : \A l \in Libraries :
         /\ replies'[p][l] \in {"no id", "no docs"}
            => /\ replies[p][l] # replies'[p][l]
                  => (bodies' = bodies /\ diskIndex' = diskIndex /\ memIndex' = memIndex)
               /\ CacheKey(l, Step) \notin (wroteBody'[p] \cup wroteIndex'[p])
               /\ ~( /\ ppc'[p] \in {"store_acquire", "store_body", "save_acquire", "save_write"}
                     /\ Head(todo'[p]) = l )
         /\ bodies'[CacheKey(l, Step)] \in BodyTexts \cup {NoFile}
         /\ hitBody'[p][l] \in BodyTexts \cup {NoRead, "TimeoutError"}]_vars

C38_Witness ==
    /\ Returned("p1")
    /\ libraries["p1"] = <<"react", "pytest">>
    /\ replies["p1"] = [react |-> "no docs", pytest |-> "no id"]
    /\ library_docs["p1"] = << [library |-> "react", docs |-> NotAvailable("react")],
                               [library |-> "pytest", docs |-> CouldNotResolve("pytest")] >>
    /\ pre["p1"]["react"] = "expired"
    /\ bodies[CacheKey("react", Step)] = "# Docs v1"
    /\ LoadIndex(diskIndex)[CacheKey("react", Step)].ts = 0

====
